---- MODULE Spec2Model ----
(***************************************************************************)
(* CodeSummaryAgent: the level-synchronised analysis pipeline.            *)
(*                                                                         *)
(* A relative path is a sequence of names, a name is a sequence of its     *)
(* dot-separated segments ("pkg/b.py" is << <<"pkg">>, <<"b","py">> >>),   *)
(* so that appending ".md" to a name and stripping it again are real       *)
(* operations.  Document paths are relative to the docs root.              *)
(***************************************************************************)
EXTENDS Integers, Sequences, FiniteSets, TLC

\* ------------------------------------------------------------------ bounds
\* LLMConfig.max_concurrent and LLMConfig.max_retries of the run (inputs)
MaxConcurrent == 2
MaxRetries == 1
\* how many times the program is started, and how many documents are deleted
\* from outside between two runs
MaxRuns == 2
MaxDeletes == 1
\* how many times the environment misbehaves over all runs: a model call that
\* raises or answers blank, a document write that fails, a final document
\* whose text carries an API marker block
MaxFaults == 2
\* how many CheckpointService calls and file-system events a service-level
\* run takes
MaxOps == 4
\* how many writes of the checkpoint file fail in a service-level run
MaxWriteFailures == 1

\* ------------------------------------------------------------- tree model
ROOT == << >>
PKG == << <<"pkg">> >>
FA == << <<"a", "py">> >>
FB == << <<"pkg">>, <<"b", "py">> >>
FC == << <<"pkg">>, <<"c", "py">> >>

\* the scanned tree: root/{pkg/{b.py, c.py}, a.py}
Files == {FA, FB, FC}
Dirs == {ROOT, PKG}
Nodes == Files \cup Dirs

Front(s) == SubSeq(s, 1, Len(s) - 1)
Last(s) == s[Len(s)]

\* a file of another tree, at depth 1, with a backslash in its name (a legal
\* name where "/" is the separator); a name is its parts between the dots,
\* and BS stands where the backslash is
BS == "\\"
FW == << <<"we", BS, "ird", "py">> >>

is_file(n) == n \in Files \cup {FW}
is_dir(n) == n \in Dirs
node_depth(n) == Len(n)
node_children(n) == {c \in Nodes : Len(c) = Len(n) + 1 /\ Front(c) = n}

\* get_nodes_by_depth: collect() walks the tree from a node down
RECURSIVE collect(_)
collect(n) == {n} \cup UNION {collect(c) : c \in node_children(n)}

\* get_max_depth: calc_depth() gives the depth of a leaf, and for any other
\* node the largest value of its children
RECURSIVE calc_depth(_)
calc_depth(n) ==
    IF node_children(n) = {} THEN node_depth(n)
    ELSE LET below == {calc_depth(c) : c \in node_children(n)}
         IN  CHOOSE d \in below : \A e \in below : e <= d

\* faulty variant of max_depth: the depth of the first sub-directory, so that
\* the level of its files is left out
max_depth_short == node_depth(PKG)

\* get_nodes_by_depth / get_max_depth
depth_map(d) == {n \in Nodes : node_depth(n) = d}
max_depth == CHOOSE d \in 0..3 : depth_map(d) # {} /\ \A e \in (d + 1)..3 : depth_map(e) = {}

\* the order in which get_nodes_by_depth collects the nodes: pre-order, a
\* directory's sub-directories before its files (the scanner's sort)
preorder == <<ROOT, PKG, FB, FC, FA>>

\* AnalysisStatus
PENDING == "pending"
IN_PROGRESS == "in_progress"
COMPLETED == "completed"
FAILED == "failed"
SKIPPED == "skipped"
Terminal == {COMPLETED, FAILED, SKIPPED}

\* ------------------------------------------------------ document naming
MD == "md"
dir_summary_name == <<"_dir_summary", MD>>
readme_name == <<"README", MD>>
reading_guide_name == <<"READING_GUIDE", MD>>
api_doc_name == <<"API_DOC", MD>>
api_usage_doc_name == <<"API_USAGE", MD>>
NoPath == << <<"None">> >>

\* CheckpointService.generate_doc_path (DocumentGenerator.get_doc_path is the same rule)
generate_doc_path(n) ==
    IF is_file(n)
    THEN Append(Front(n), Append(Last(n), MD))
    ELSE Append(n, dir_summary_name)

readme_path == <<readme_name>>
reading_guide_path == <<reading_guide_name>>
api_doc_path == <<api_doc_name>>
api_usage_doc_path == <<api_usage_doc_name>>
FinalPaths == {readme_path, reading_guide_path, api_doc_path, api_usage_doc_path}

\* what a document on disk holds: an analysis with an API marker block, an
\* analysis without one, or a file cut short by a failed write
DocKinds == {"api", "plain", "partial"}

\* parse_api_info_from_doc, on the kinds of text: <<has_api, api_info>>
parse_api_info_from_doc(content) ==
    IF content = "api" THEN <<TRUE, "info">> ELSE <<FALSE, "none">>

\* a function without one key / with one key set
Without(f, k) == [x \in (DOMAIN f) \ {k} |-> f[x]]
With(f, k, v) == [x \in (DOMAIN f) \cup {k} |-> IF x = k THEN v ELSE f[x]]
EmptyMap == [x \in {} |-> "none"]

\* ------------------------------------------------------ CheckpointService
\* the in-memory sets, flags and maps of a fresh service
CheckpointService ==
    [completed_files |-> {}, completed_dirs |-> {}, failed_files |-> {},
     readme_completed |-> FALSE, reading_guide_completed |-> FALSE,
     api_doc_completed |-> FALSE, api_usage_doc_completed |-> FALSE,
     api_files |-> {}, api_info_map |-> EmptyMap,
     api_details_map |-> EmptyMap, api_usage_details_map |-> EmptyMap,
     doc_path_map |-> EmptyMap]

\* no checkpoint file on disk
NoCheckpointFile == [exists |-> FALSE]

\* a checkpoint file whose content json.load cannot parse
UnparsableFile == [exists |-> TRUE, parsable |-> FALSE]

\* the resolved source root of this analysis
SourceRoot == "/proj"

doc_exists(docs, n) == generate_doc_path(n) \in DOMAIN docs

\* faulty variant of is_completed: membership in the record is taken at its word
is_completed_unverified(c, d, n) ==
    IF is_file(n) THEN n \in c.completed_files ELSE n \in c.completed_dirs

\* faulty variant of is_completed: no record ever matches
is_completed_never(c, d, n) == FALSE

is_completed(cp, docs, n) ==
    LET in_record == IF is_file(n) THEN n \in cp.completed_files
                                   ELSE n \in cp.completed_dirs
    IN  IF ~in_record THEN FALSE ELSE doc_exists(docs, n)

\* CheckpointData written by save_checkpoint (doc_path_map is not persisted)
\* faulty variant of save_checkpoint: the stage-one details are left out
save_checkpoint_without_details(cp) ==
    [exists |-> TRUE,
     parsable |-> TRUE,
     source_root |-> SourceRoot,
     completed_files |-> cp.completed_files,
     completed_dirs |-> cp.completed_dirs,
     failed_files |-> cp.failed_files,
     readme_completed |-> cp.readme_completed,
     reading_guide_completed |-> cp.reading_guide_completed,
     api_doc_completed |-> cp.api_doc_completed,
     api_usage_doc_completed |-> cp.api_usage_doc_completed,
     api_files |-> cp.api_files,
     api_info_map |-> cp.api_info_map,
     api_details_map |-> EmptyMap,
     api_usage_details_map |-> EmptyMap]

save_checkpoint(cp) ==
    [exists |-> TRUE,
     parsable |-> TRUE,
     source_root |-> SourceRoot,
     completed_files |-> cp.completed_files,
     completed_dirs |-> cp.completed_dirs,
     failed_files |-> cp.failed_files,
     readme_completed |-> cp.readme_completed,
     reading_guide_completed |-> cp.reading_guide_completed,
     api_doc_completed |-> cp.api_doc_completed,
     api_usage_doc_completed |-> cp.api_usage_doc_completed,
     api_files |-> cp.api_files,
     api_info_map |-> cp.api_info_map,
     api_details_map |-> cp.api_details_map,
     api_usage_details_map |-> cp.api_usage_details_map]

\* str.replace("\\", "/") on one name: every backslash becomes a separator,
\* so the name falls into the names before and after it
RECURSIVE split_at_backslash(_)
split_at_backslash(name) ==
    IF ~\E i \in DOMAIN name : name[i] = BS THEN <<name>>
    ELSE LET i == CHOOSE j \in DOMAIN name :
                     name[j] = BS /\ \A k \in 1..(j - 1) : name[k] # BS
         IN  <<SubSeq(name, 1, i - 1)>> \o split_at_backslash(SubSeq(name, i + 1, Len(name)))

\* str.replace("\\", "/") on a relative path
RECURSIVE forward_slashes(_)
forward_slashes(path) ==
    IF path = << >> THEN << >>
    ELSE forward_slashes(Front(path)) \o split_at_backslash(Last(path))

\* the keys of a map loaded from the checkpoint file, each with
\* str.replace("\\", "/") applied
forward_keys(m) ==
    [k \in {forward_slashes(x) : x \in DOMAIN m} |->
        m[CHOOSE x \in DOMAIN m : forward_slashes(x) = k]]

\* faulty variant of load_checkpoint: the completed sets are taken over before
\* the source root is compared
load_checkpoint_eager(cp, file) ==
    IF ~file.exists THEN <<FALSE, cp>>
    ELSE IF ~file.parsable THEN <<FALSE, cp>>
    ELSE <<file.source_root = SourceRoot,
           [cp EXCEPT !.completed_files = {forward_slashes(p) : p \in file.completed_files},
                      !.completed_dirs = {forward_slashes(p) : p \in file.completed_dirs}]>>

\* load_checkpoint: <<loaded, service state>>; a missing file, a json.load
\* that raises and another source root end the call before the service is
\* touched; the paths of the sets and the keys of the maps are stored with
\* forward slashes
load_checkpoint(cp, file) ==
    IF ~file.exists THEN <<FALSE, cp>>
    ELSE IF ~file.parsable THEN <<FALSE, cp>>
    ELSE IF file.source_root # SourceRoot THEN <<FALSE, cp>>
    ELSE <<TRUE,
           [cp EXCEPT !.completed_files = {forward_slashes(p) : p \in file.completed_files},
                      !.completed_dirs = {forward_slashes(p) : p \in file.completed_dirs},
                      !.failed_files = {forward_slashes(p) : p \in file.failed_files},
                      !.readme_completed = file.readme_completed,
                      !.reading_guide_completed = file.reading_guide_completed,
                      !.api_doc_completed = file.api_doc_completed,
                      !.api_usage_doc_completed = file.api_usage_doc_completed,
                      !.api_files = {forward_slashes(p) : p \in file.api_files},
                      !.api_info_map = forward_keys(file.api_info_map),
                      !.api_details_map = forward_keys(file.api_details_map),
                      !.api_usage_details_map = forward_keys(file.api_usage_details_map)]>>

\* scan_existing_docs: every *.md under the docs root is taken for a directory
\* summary (by its fixed name) or for the document of the file named by
\* stripping ".md"
scanned_dirs(docs) ==
    {forward_slashes(Front(p)) : p \in {q \in DOMAIN docs : Last(q) = dir_summary_name}}
scanned_file_of(p) == forward_slashes(Append(Front(p), Front(Last(p))))
scanned_file_docs(docs) ==
    {p \in DOMAIN docs : Last(p) # dir_summary_name /\ Last(Last(p)) = MD}
scanned_files(docs) == {scanned_file_of(p) : p \in scanned_file_docs(docs)}
scan_existing_docs(cp, docs) ==
    LET sdirs == scanned_dirs(docs)
        sfiles == scanned_files(docs)
        doc_of(r) == CHOOSE p \in scanned_file_docs(docs) : scanned_file_of(p) = r
        recovered == {r \in sfiles : /\ r \notin cp.api_files
                                     /\ parse_api_info_from_doc(docs[doc_of(r)])[1]}
    IN  [cp EXCEPT
          !.completed_dirs = @ \cup sdirs,
          !.completed_files = @ \cup sfiles,
          !.doc_path_map =
              [r \in (DOMAIN @) \cup sdirs \cup sfiles |->
                  IF r \in sfiles THEN doc_of(r)
                  ELSE IF r \in sdirs THEN Append(r, dir_summary_name)
                  ELSE @[r]],
          !.api_files = @ \cup recovered,
          !.api_info_map =
              [r \in (DOMAIN @) \cup recovered |->
                  IF r \in recovered
                  THEN parse_api_info_from_doc(docs[doc_of(r)])[2]
                  ELSE @[r]]]

\* faulty variant of mark_completed: the node is recorded as failed, as a
\* caller would do for an error of the save
mark_completed_failing_node(cp, n, doc_path) ==
    [cp EXCEPT !.failed_files = @ \cup {n}]

\* faulty variant of mark_completed: the failed record is kept
mark_completed_keeping_failed(cp, n, doc_path) ==
    [cp EXCEPT !.completed_files = IF is_file(n) THEN @ \cup {n} ELSE @,
               !.completed_dirs = IF is_file(n) THEN @ ELSE @ \cup {n},
               !.doc_path_map = With(@, n, doc_path)]

mark_completed(cp, n, doc_path) ==
    [cp EXCEPT !.completed_files = IF is_file(n) THEN @ \cup {n} ELSE @,
               !.completed_dirs = IF is_file(n) THEN @ ELSE @ \cup {n},
               !.doc_path_map = With(@, n, doc_path),
               !.failed_files = @ \ {n}]

\* faulty variant of mark_failed: the whole level of the node is given up
mark_failed_with_level(c, n) ==
    [c EXCEPT !.failed_files = @ \cup {m \in Nodes : node_depth(m) = node_depth(n)}]

mark_failed(cp, n) == [cp EXCEPT !.failed_files = @ \cup {n}]

get_doc_path(cp, n) == IF n \in DOMAIN cp.doc_path_map THEN cp.doc_path_map[n] ELSE NoPath

\* update_node_status over the whole tree: <<status, doc_path>> of each node
update_node_status(cp, docs, status, node_doc_path) ==
    [n \in Nodes |->
        IF is_completed(cp, docs, n) THEN <<COMPLETED, get_doc_path(cp, n)>>
        ELSE IF n \in cp.failed_files THEN <<FAILED, node_doc_path[n]>>
        ELSE <<status[n], node_doc_path[n]>>]

is_readme_completed(cp, docs) ==
    IF ~cp.readme_completed THEN FALSE ELSE readme_path \in DOMAIN docs

is_reading_guide_completed(cp, docs) ==
    IF ~cp.reading_guide_completed THEN FALSE ELSE reading_guide_path \in DOMAIN docs

\* faulty variant of is_api_doc_completed: the stage-one details are not looked at
is_api_doc_completed_by_flag(cp, docs) ==
    IF ~cp.api_doc_completed THEN FALSE ELSE api_doc_path \in DOMAIN docs

is_api_doc_completed(cp, docs) ==
    IF ~cp.api_doc_completed THEN FALSE
    ELSE IF \E f \in cp.api_files : f \notin DOMAIN cp.api_details_map THEN FALSE
    ELSE api_doc_path \in DOMAIN docs

is_api_usage_doc_completed(cp, docs) ==
    IF ~cp.api_usage_doc_completed THEN FALSE
    ELSE IF \E f \in cp.api_files : f \notin DOMAIN cp.api_usage_details_map THEN FALSE
    ELSE api_usage_doc_path \in DOMAIN docs

scan_final_docs(cp, docs) ==
    [cp EXCEPT
       !.readme_completed = IF readme_path \in DOMAIN docs THEN TRUE ELSE @,
       !.reading_guide_completed = IF reading_guide_path \in DOMAIN docs THEN TRUE ELSE @,
       !.api_doc_completed = IF api_doc_path \in DOMAIN docs THEN TRUE ELSE @,
       !.api_usage_doc_completed = IF api_usage_doc_path \in DOMAIN docs THEN TRUE ELSE @]

\* faulty variant of mark_has_api: the completion flags are left alone
mark_has_api_keeping_flags(c, n, api_info) ==
    [c EXCEPT !.api_files = @ \cup {n}, !.api_info_map = With(@, n, api_info)]

\* faulty variant of mark_has_api: the file is added to the set only
mark_has_api_set_only(c, n, api_info) ==
    [c EXCEPT !.api_files = @ \cup {n}]

mark_has_api(cp, n, api_info) ==
    LET is_new_api_file == n \notin cp.api_files
    IN  [cp EXCEPT
          !.api_files = @ \cup {n},
          !.api_info_map = With(@, n, api_info),
          !.api_doc_completed = IF is_new_api_file /\ @ THEN FALSE ELSE @,
          !.api_usage_doc_completed = IF is_new_api_file /\ @ THEN FALSE ELSE @]

save_api_details(cp, f, details) ==
    [cp EXCEPT !.api_details_map = With(@, forward_slashes(f), details)]
save_api_usage_details(cp, f, details) ==
    [cp EXCEPT !.api_usage_details_map = With(@, forward_slashes(f), details)]

\* ------------------------------------------------ the API overview table
\* the longest API info text, in lines
MaxLines == 2

\* a line of an API info text as api_pattern sees it: does it start with "-",
\* what stands between the brackets, the path after them, the description
InfoLines ==
    {[dash |-> TRUE, method |-> "GET", path |-> "/health", desc |-> "check"],
     [dash |-> TRUE, method |-> "POST", path |-> "/health", desc |-> ""],
     [dash |-> TRUE, method |-> "", path |-> "/health", desc |-> "check"],
     [dash |-> TRUE, method |-> "GET", path |-> "", desc |-> ""],
     [dash |-> FALSE, method |-> "GET", path |-> "/health", desc |-> "check"]}

\* re.match(api_pattern, line): "-", a non-empty "[...]" and a non-empty path
api_pattern_matches(line) == line.dash /\ line.method # "" /\ line.path # ""

\* parse_apis_from_info_text: the module name taken from source_file
module_of(source_file) ==
    IF Len(source_file) >= 2 THEN source_file[1][1] ELSE Last(source_file)[1]

RECURSIVE parse_apis_from_info_text(_, _)
parse_apis_from_info_text(api_info_text, source_file) ==
    IF api_info_text = << >> THEN << >>
    ELSE LET line == Last(api_info_text)
             before == parse_apis_from_info_text(Front(api_info_text), source_file)
         IN  IF api_pattern_matches(line)
             THEN Append(before, [method |-> line.method, path |-> line.path,
                                  desc |-> line.desc, module |-> module_of(source_file),
                                  source_file |-> source_file])
             ELSE before

\* faulty variant of extract_all_apis_from_info_map: an entry with the method
\* and path of an earlier one is dropped
RECURSIVE extract_all_apis_unique(_)
extract_all_apis_unique(api_info_map) ==
    IF api_info_map = << >> THEN << >>
    ELSE LET before == extract_all_apis_unique(Front(api_info_map))
             apis == parse_apis_from_info_text(Last(api_info_map)[2], Last(api_info_map)[1])
         IN  before \o SelectSeq(apis,
                 LAMBDA a : ~\E i \in DOMAIN before :
                               before[i].method = a.method /\ before[i].path = a.path)

\* extract_all_apis_from_info_map; the dict is the sequence of its items
RECURSIVE extract_all_apis_from_info_map(_)
extract_all_apis_from_info_map(api_info_map) ==
    IF api_info_map = << >> THEN << >>
    ELSE extract_all_apis_from_info_map(Front(api_info_map))
         \o parse_apis_from_info_text(Last(api_info_map)[2], Last(api_info_map)[1])

\* _get_module_display_name on the module names of the tree: str.title()
get_module_display_name(module) ==
    IF module = "" THEN "Other"
    ELSE IF module = "pkg" THEN "Pkg"
    ELSE IF module = "a" THEN "A"
    ELSE module

\* generate_api_summary_table: the rows under the header and the total line;
\* without entries the text only says that there are no interfaces
generate_api_summary_table(apis) ==
    IF apis = << >> THEN [rows |-> << >>, total_stated |-> FALSE, total |-> 0]
    ELSE [rows |-> [i \in 1..Len(apis) |->
                      [no |-> i,
                       module |-> get_module_display_name(apis[i].module),
                       method |-> apis[i].method,
                       path |-> apis[i].path,
                       desc |-> apis[i].desc,
                       auth |-> "no"]],
          total_stated |-> TRUE,
          total |-> Len(apis)]

\* the files an API info map may hold, and the texts it may hold for them
InfoFiles == {FA, FB}
InfoTexts == UNION {[1..n -> InfoLines] : n \in 0..MaxLines}
ApiInfoMaps ==
    {<< >>} \cup {<< <<f, t>> >> : f \in InfoFiles, t \in InfoTexts}
    \cup {m \in {<< <<f, t>>, <<g, u>> >> : f \in InfoFiles, g \in InfoFiles,
                                               t \in InfoTexts, u \in InfoTexts} :
             m[1][1] # m[2][1]}

NoTable == [api_info_map |-> << >>, built |-> FALSE, all_apis |-> << >>,
            summary_table |-> generate_api_summary_table(<< >>)]

\* a source directory given to the scanner: entries up to MaxTreeDepth levels
\* below the root, each absent, a directory, a file the scanner takes, or an
\* entry it passes over (ignored, unsupported extension, too large)
MaxTreeDepth == 3
EntryNames == {1, 2}
TreeRoot == << >>
TreePaths == UNION {[1..d -> EntryNames] : d \in 1..MaxTreeDepth}

\* nothing scanned yet, an empty source directory
NoScan == [fs |-> [p \in TreePaths |-> "none"], scanned |-> FALSE,
           children |-> [p \in {TreeRoot} \cup TreePaths |-> << >>],
           pruned_count |-> 0]

\* no lists compared yet
NoComparison == [summary_apis |-> << >>, usage_apis |-> << >>, compared |-> FALSE,
                 is_consistent |-> FALSE, missing_in_usage |-> {},
                 extra_in_usage |-> {}]

\* ------------------------------------------------------------ the program
VARIABLES
    docs,             \* the docs root on disk: document path -> kind of content
    ckfile,           \* .checkpoint.json on disk
    cp,               \* CheckpointService in memory
    status,           \* FileNode.status
    node_doc_path,    \* FileNode.doc_path
    error_message,    \* FileNode.error_message
    phase,            \* where analyze() stands; "stopped" when no process runs
    depth,            \* the depth cursor of process_all_levels
    queue,            \* LLMQueue.queue
    worker_count,     \* workers started by process_all
    results,          \* (node, success) pairs of the current level
    failed_nodes,     \* LevelProcessor.failed_nodes
    pc,               \* per call site: idle, queued, wait, call, done
    attempt,          \* per call site: the loop index inside RetryHandler.execute
    last_exception,   \* per call site: last_exception inside RetryHandler.execute
    permits,          \* value of the shared semaphore
    generated,        \* final documents the generators returned in this run
    run,              \* number of runs started
    resume,           \* analyze(resume=...) of the current run
    deletes,          \* files deleted from outside so far
    outcome,          \* how the last run ended, "tampered" after a deletion
    called,           \* call sites that invoked the model in this run
    missing_at_start, \* nodes without a document when this run started
    clean_rerun,      \* this run follows a complete, untouched run
    faults,           \* misbehaviours of the environment so far
    last_op,          \* the last CheckpointService call of the service-level runs
    ops,              \* number of service-level steps taken
    at_start,         \* what the service held when this run started
    reported,         \* per generator: the files its error log named as missing
    llm_content,      \* per generator: the text stage two got from the model
    usage,            \* the strategy choice of generate_api_usage_doc
    lq,               \* an LLMQueue and its workers, driven on their own
    dir_branch,       \* per directory: the way _process_single_directory took
    table,            \* an API info map and the overview table made from it
    ever_marked,      \* nodes mark_completed has been called for, in any run
    comparison,       \* two interface lists and what compare_api_counts said of them
    scanner           \* a source directory and the tree DirectoryScanner.scan made of it

vars == <<docs, ckfile, cp, status, node_doc_path, error_message, phase, depth, queue,
          worker_count, results, failed_nodes, pc, attempt, last_exception, permits,
          generated, run, resume, deletes, outcome, called, missing_at_start,
          clean_rerun, faults, last_op, ops, at_start, reported, llm_content,
          usage, lq, dir_branch,
                   table, ever_marked, comparison, scanner>>

\* the variables only the service-level specification moves, and those only
\* the pipeline moves
harness_vars == <<last_op, ops, at_start, reported, llm_content, usage, lq,
                  dir_branch,
                   table, ever_marked, comparison, scanner>>
pipeline_vars == <<status, node_doc_path, error_message, phase, depth, queue,
                   worker_count, results, failed_nodes, pc, attempt, last_exception,
                   permits, generated, run, resume, deletes, outcome, called,
                   missing_at_start, clean_rerun, faults, at_start, reported,
                   llm_content, usage, lq, dir_branch,
                   table, ever_marked, comparison, scanner>>

\* no directory has been looked at
NoBranch == [n \in Dirs |-> "none"]

\* the call sites of the model
NodeJob(n) == <<"node", n>>
ExtractJob(f) == <<"extract", f>>
UsageExtractJob(f) == <<"uextract", f>>
\* the relative paths scan_existing_docs derives from the final documents
PseudoFiles == {scanned_file_of(p) : p \in FinalPaths}
\* everything that can enter the API file set
ApiCandidates == Files \cup PseudoFiles
Jobs == ({"node"} \X Nodes) \cup ({"readme", "guide", "api", "usage"} \X {ROOT})
        \cup ({"extract", "uextract"} \X ApiCandidates)

\* what the model may answer: a text with an API marker block, a text without,
\* an empty or whitespace-only text, or a transport error
FileResponses == {"api", "plain", "blank", "raise"}
FinalResponses == {"api", "plain", "blank", "raise"}
\* directory summaries and extracted details are never parsed for the marker
TextResponses == {"plain", "blank", "raise"}
\* how a document write may end
IoOutcomes == {"ok", "fails"}
\* analyze(resume=...) as the command line passes it by default
ResumeChoices == {TRUE}

Min(a, b) == IF a < b THEN a ELSE b

\* what an answer and the write that follows it cost of the fault budget
fault_cost(resp, io, final) ==
    IF resp \in {"blank", "raise"} THEN 1
    ELSE IF io = "fails" THEN 1
    ELSE IF final /\ resp = "api" THEN 1
    ELSE 0

\* the state of the service a run starts from: the API files known, and
\* whether the API document and the usage document count as completed
snapshot(c, d) ==
    [api_files |-> c.api_files,
     api_details |-> DOMAIN c.api_details_map,
     api_doc_done |-> is_api_doc_completed(c, d),
     api_usage_doc_done |-> is_api_usage_doc_completed(c, d)]
NoSnapshot == [api_files |-> {}, api_details |-> {}, api_doc_done |-> FALSE,
               api_usage_doc_done |-> FALSE]

\* the docs root before the first run: empty, or holding an API document and a
\* usage document that were put there by other means
InitialDocs ==
    {EmptyMap, [p \in {api_doc_path, api_usage_doc_path} |-> "plain"]}

\* llm_service.API_USAGE_BATCH_THRESHOLD
API_USAGE_BATCH_THRESHOLD == 20

\* the largest number of API files and of rows of one kind in an API document
MaxApiFiles == 25
MaxRows == 21

\* an API document as count_api_in_summary_doc sees it: the rows of the
\* numbered overview table, the rows of tables without numbers, the list items
ApiDocContents == [numbered : 0 .. MaxRows, simple : 0 .. MaxRows, listed : {0, MaxRows}]
EmptyContent == [numbered |-> 0, simple |-> 0, listed |-> 0]

\* count_api_in_summary_doc: the numbered rows; without any, the rows of
\* simple tables; without any of those, the list items
count_api_in_summary_doc(content) ==
    IF content.numbered > 0 THEN content.numbered
    ELSE IF content.simple > 0 THEN content.simple
    ELSE content.listed

\* _get_api_info_for_usage_doc: 0 without an API document or with an empty
\* one, else the count of its interfaces
get_api_info_for_usage_doc(exists, content) ==
    IF ~exists THEN 0
    ELSE IF content = EmptyContent THEN 0
    ELSE count_api_in_summary_doc(content)

\* faulty variant of usage_strategy: the programmatic assembly from the
\* threshold on
usage_strategy_at_threshold(api_count) ==
    IF api_count < API_USAGE_BATCH_THRESHOLD THEN "single" ELSE "programmatic"

\* generate_api_usage_doc: one model call for everything up to the threshold,
\* the programmatic assembly above it
usage_strategy(api_count) ==
    IF api_count <= API_USAGE_BATCH_THRESHOLD THEN "single" ELSE "programmatic"

\* generate_api_usage_doc has not been asked to choose
NoUsage == [api_files |-> 0, api_doc_exists |-> FALSE, api_doc |-> EmptyContent,
            api_count |-> 0, strategy |-> "none"]

\* the largest batch submitted to a queue driven on its own
MaxTasks == 3

\* the workers process_all can start, and no task
Workers == 1 .. MaxConcurrent
NoTask == 0

\* LLMQueue.__init__ with a semaphore of max_concurrent permits: an empty
\* queue, no results, not running, no worker
LLMQueue(max_concurrent) ==
    [max_concurrent |-> max_concurrent,
     permits |-> max_concurrent,
     queue |-> << >>,
     unfinished |-> 0,
     stats_total |-> 0,
     stats_queued |-> 0,
     results |-> {},
     running |-> FALSE,
     at |-> "submit",
     wpc |-> [w \in Workers |-> "none"],
     wtask |-> [w \in Workers |-> NoTask],
     executed |-> [t \in 1 .. MaxTasks |-> 0],
     completed |-> [t \in 1 .. MaxTasks |-> 0],
     callback_errors |-> {}]

\* stage two of no generator has got a text from the model
NoContent == [k \in {"api", "usage"} |-> "none"]

\* no generator has logged a missing file
NothingReported == [k \in {"api", "usage"} |-> {}]

\* no service-level call yet
NoOp == [op |-> "none", arg |-> NoPath, was_new |-> FALSE, was_failed |-> FALSE,
         write |-> "none", write_failures |-> 0,
         api_doc_completed |-> FALSE, api_usage_doc_completed |-> FALSE]

\* an exception, with the attempt of execute() that raised it
NoException == [type |-> "none", attempt |-> 0]
OSError == [type |-> "OSError", attempt |-> 0]

\* model calls in flight: call sites inside RetryHandler.execute
inflight == Cardinality({j \in Jobs : pc[j] = "call"})

\* faulty variant of validate: an empty answer passes as a text
validate_without_blank_check(resp, att) ==
    IF resp = "raise" THEN [type |-> "TransportError", attempt |-> att]
    ELSE NoException

\* the *_with_validation wrappers and _analyze_node at attempt att: the
\* exception raised for a response, NoException when the text is returned
validate(resp, att) ==
    IF resp = "raise" THEN [type |-> "TransportError", attempt |-> att]
    ELSE IF resp = "blank" THEN [type |-> "ValueError", attempt |-> att]
    ELSE NoException

\* faulty variant of execute: one retry more than max_retries
execute_one_retry_more(att, exc) ==
    IF exc.type = "none" THEN "return"
    ELSE IF MaxRetries - att >= 0 THEN "retry"
    ELSE "raise"

\* RetryHandler.execute, one pass of its loop at index att when the call ended
\* with exception exc: return the result, sleep and go round again, or leave
\* the loop and raise RetryExhaustedError
execute(att, exc) ==
    IF exc.type = "none" THEN "return"
    ELSE IF MaxRetries - att > 0 THEN "retry"
    ELSE "raise"

\* the RetryExhaustedError execute() raises when last is the exception of the
\* pass that ended the loop
RetryExhaustedError(last) == [last_exception |-> last, attempts |-> MaxRetries + 1]

\* faulty variant of semaphore_free: a call site that does not wait for the gate
semaphore_not_awaited(p) == TRUE

\* asyncio.Semaphore: "async with" proceeds when the value is positive
semaphore_free(p) == p > 0

\* faulty variant of save_document: nothing reaches the disk
save_document_dropped(d, path, content, io) == d

\* DocumentGenerator._save_document
save_document(d, path, content, io) == IF io = "ok" THEN With(d, path, content) ELSE d

\* DocumentGenerator.read_child_summaries: the children whose document is read.
\* A child without doc_path is passed over, and a read that raises is logged
\* and passed over too; rd = "fails" is the run in which every read raises
read_child_summaries(d, ndp, n, rd) ==
    {c \in node_children(n) : ndp[c] # NoPath /\ ndp[c] \in DOMAIN d /\ rd = "ok"}

InitProgram ==
    /\ docs \in InitialDocs
    /\ ckfile = NoCheckpointFile
    /\ cp = CheckpointService
    /\ status = [n \in Nodes |-> PENDING]
    /\ node_doc_path = [n \in Nodes |-> NoPath]
    /\ error_message = [n \in Nodes |-> NoException]
    /\ phase = "stopped"
    /\ depth = 0
    /\ queue = << >>
    /\ worker_count = 0
    /\ results = {}
    /\ failed_nodes = {}
    /\ pc = [j \in Jobs |-> "idle"]
    /\ attempt = [j \in Jobs |-> 0]
    /\ last_exception = [j \in Jobs |-> NoException]
    /\ permits = MaxConcurrent
    /\ generated = {}
    /\ run = 0
    /\ resume = TRUE
    /\ deletes = 0
    /\ outcome = "none"
    /\ called = {}
    /\ missing_at_start = {}
    /\ clean_rerun = FALSE
    /\ faults = 0
    /\ last_op = NoOp
    /\ ops = 0
    /\ at_start = NoSnapshot
    /\ reported = NothingReported
    /\ llm_content = NoContent
    /\ dir_branch = NoBranch
    /\ ever_marked = {}
    /\ comparison = NoComparison
    /\ scanner = NoScan

Init ==
    /\ InitProgram
    /\ usage = NoUsage
    /\ lq \in {LLMQueue(MaxConcurrent)}
    /\ table = NoTable

\* CodeAnalyzer.analyze up to the creation of the LevelProcessor
StartRun(r) ==
    /\ phase = "stopped"
    /\ run < MaxRuns
    /\ LET loaded == IF r THEN load_checkpoint(CheckpointService, ckfile)[2]
                          ELSE CheckpointService
           scanned == IF r THEN scan_existing_docs(loaded, docs) ELSE loaded
           fresh_status == [n \in Nodes |-> PENDING]
           fresh_path == [n \in Nodes |-> NoPath]
           upd == IF r THEN update_node_status(scanned, docs, fresh_status, fresh_path)
                       ELSE [n \in Nodes |-> <<PENDING, NoPath>>]
       IN  /\ cp' = scanned
           /\ status' = [n \in Nodes |-> upd[n][1]]
           /\ node_doc_path' = [n \in Nodes |-> upd[n][2]]
           /\ at_start' = snapshot(scanned, docs)
    /\ reported' = NothingReported
    /\ llm_content' = NoContent
    /\ error_message' = [n \in Nodes |-> NoException]
    /\ run' = run + 1
    /\ resume' = r
    /\ phase' = "level"
    /\ depth' = max_depth
    /\ permits' = MaxConcurrent
    /\ queue' = << >>
    /\ worker_count' = 0
    /\ results' = {}
    /\ failed_nodes' = {}
    /\ pc' = [j \in Jobs |-> "idle"]
    /\ attempt' = [j \in Jobs |-> 0]
    /\ last_exception' = [j \in Jobs |-> NoException]
    /\ generated' = {}
    /\ called' = {}
    /\ missing_at_start' = {n \in Nodes : ~doc_exists(docs, n)}
    /\ clean_rerun' = (r /\ outcome = "complete")
    /\ UNCHANGED <<docs, ckfile, deletes, outcome, faults>>
    /\ dir_branch' = NoBranch
    /\ UNCHANGED <<last_op, ops, usage, lq, table, ever_marked, comparison, scanner>>

\* a document, or the checkpoint file, is deleted from outside between two runs
DeleteDoc(p) ==
    /\ phase = "stopped"
    /\ run < MaxRuns
    /\ deletes < MaxDeletes
    /\ p \in DOMAIN docs
    /\ docs' = Without(docs, p)
    /\ deletes' = deletes + 1
    /\ outcome' = "tampered"
    /\ UNCHANGED <<ckfile, cp, status, node_doc_path, error_message, phase, depth, queue,
                   worker_count, results, failed_nodes, pc, attempt, last_exception,
                   permits, generated, run, resume, called, missing_at_start,
                   clean_rerun,
                   faults>>
    /\ UNCHANGED harness_vars

DeleteCheckpoint ==
    /\ phase = "stopped"
    /\ run < MaxRuns
    /\ deletes < MaxDeletes
    /\ ckfile.exists
    /\ ckfile' = NoCheckpointFile
    /\ deletes' = deletes + 1
    /\ outcome' = "tampered"
    /\ UNCHANGED <<docs, cp, status, node_doc_path, error_message, phase, depth, queue,
                   worker_count, results, failed_nodes, pc, attempt, last_exception,
                   permits, generated, run, resume, called, missing_at_start,
                   clean_rerun,
                   faults>>
    /\ UNCHANGED harness_vars

\* an attempt of a call site ends with an exception and execute() sleeps, then
\* calls the model again; the semaphore stays held
Retry(j, resp) ==
    /\ pc[j] = "call"
    /\ execute(attempt[j], validate(resp, attempt[j])) = "retry"
    /\ last_exception' = [last_exception EXCEPT ![j] = validate(resp, attempt[j])]
    /\ attempt' = [attempt EXCEPT ![j] = @ + 1]
    /\ faults < MaxFaults
    /\ faults' = faults + 1
    /\ UNCHANGED <<docs, ckfile, cp, status, node_doc_path, error_message, phase, depth,
                   queue, worker_count, results, failed_nodes, pc, permits, generated,
                   run, resume, deletes, outcome, called, missing_at_start, clean_rerun>>
    /\ UNCHANGED harness_vars

\* ------------------------------------------------------------ one level
\* faulty variant of level_files: the files of a level are passed over
level_files_none(d) == {}

level_files(d) == {n \in depth_map(d) : is_file(n)}
level_dirs(d) == {n \in depth_map(d) : is_dir(n)}

\* LevelProcessor._process_level up to the queue start in _process_files:
\* completed files are skipped, the others are submitted to the queue
ProcessFiles ==
    /\ phase = "level"
    /\ LET skipped == {n \in level_files(depth) : is_completed(cp, docs, n)}
           pending_files == level_files(depth) \ skipped
           IsPending(n) == n \in pending_files
       IN  /\ status' = [n \in Nodes |-> IF n \in skipped THEN COMPLETED ELSE status[n]]
           /\ node_doc_path' = [n \in Nodes |-> IF n \in skipped THEN get_doc_path(cp, n)
                                                ELSE node_doc_path[n]]
           /\ results' = {<<n, TRUE>> : n \in skipped}
           /\ queue' = SelectSeq(preorder, IsPending)
           /\ worker_count' = Min(MaxConcurrent, Cardinality(pending_files))
           /\ pc' = [j \in Jobs |-> IF \E n \in skipped : j = NodeJob(n) THEN "done"
                                    ELSE IF \E n \in pending_files : j = NodeJob(n)
                                    THEN "queued" ELSE pc[j]]
    /\ phase' = "files"
    /\ UNCHANGED <<docs, ckfile, cp, error_message, depth, failed_nodes, attempt,
                   last_exception, permits, generated, run, resume, deletes, outcome,
                   called, missing_at_start, clean_rerun,
                   faults>>
    /\ UNCHANGED harness_vars

\* LLMQueue._worker: a free worker takes the next task, acquires the shared
\* semaphore, and _execute_task starts the first attempt
workers_busy == Cardinality({n \in Files : pc[NodeJob(n)] = "call"})

WorkerGet ==
    /\ phase = "files"
    /\ queue # << >>
    /\ workers_busy < worker_count
    /\ semaphore_free(permits)
    /\ status' = [status EXCEPT ![Head(queue)] = IN_PROGRESS]
    /\ pc' = [pc EXCEPT ![NodeJob(Head(queue))] = "call"]
    /\ called' = called \cup {NodeJob(Head(queue))}
    /\ queue' = Tail(queue)
    /\ permits' = permits - 1
    /\ UNCHANGED <<docs, ckfile, cp, node_doc_path, error_message, phase, depth,
                   worker_count, results, failed_nodes, attempt, last_exception,
                   generated, run, resume, deletes, outcome, missing_at_start,
                   clean_rerun,
                   faults>>
    /\ UNCHANGED harness_vars

\* _execute_task after execute(): the AnalysisResult for a returned summary,
\* or for the RetryExhaustedError e
execute_task_result(returned, summary, e) ==
    IF returned
    THEN [success |-> TRUE, summary |-> summary, status |-> COMPLETED,
          error |-> NoException]
    ELSE [success |-> FALSE, summary |-> "blank", status |-> FAILED,
          error |-> e.last_exception]

\* the on_complete callback of _process_files for the result of _execute_task
on_complete(c, d, n, result, io) ==
    IF result.success /\ io = "ok"
    THEN LET doc_path == generate_doc_path(n)
             marked == mark_completed(c, n, doc_path)
             parsed == parse_api_info_from_doc(result.summary)
         IN  [cp |-> IF parsed[1] THEN mark_has_api(marked, n, parsed[2]) ELSE marked,
              docs |-> save_document(d, doc_path, result.summary, io),
              status |-> COMPLETED, doc_path |-> doc_path,
              error |-> NoException, success |-> TRUE]
    ELSE IF result.success
    THEN [cp |-> mark_failed(c, n), docs |-> d, status |-> FAILED, doc_path |-> NoPath,
          error |-> OSError, success |-> FALSE]
    ELSE [cp |-> mark_failed(c, n), docs |-> d, status |-> FAILED, doc_path |-> NoPath,
          error |-> result.error, success |-> FALSE]

\* how the progress display called by on_complete may behave: it works, it
\* raises in update_task before the save, or in complete_task after the marking
CallbackOutcomes == {"ok", "raises_early", "raises_late"}

\* what a raising progress display costs of the fault budget
callback_cost(cb) == IF cb = "ok" THEN 0 ELSE 1

\* LLMQueue._worker from the end of execute() on: _execute_task builds the
\* result and sets the node's status, the callback saves and marks and appends
\* to the results of the level, the semaphore is released. An exception that
\* leaves the callback is logged by the worker: one raised before the save
\* leaves the node unsaved and unmarked, and either leaves it out of the results
FileEnd(n, resp, io, cb) ==
    /\ phase = "files"
    /\ pc[NodeJob(n)] = "call"
    /\ execute(attempt[NodeJob(n)], validate(resp, attempt[NodeJob(n)])) # "retry"
    /\ LET exc == validate(resp, attempt[NodeJob(n)])
           returned == execute(attempt[NodeJob(n)], exc) = "return"
           result == execute_task_result(returned, resp, RetryExhaustedError(exc))
           r == on_complete(cp, docs, n, result, io)
       IN  IF cb = "raises_early"
           THEN /\ result.success
                /\ io = "ok"
                /\ status' = [status EXCEPT ![n] = result.status]
                /\ UNCHANGED <<cp, docs, ckfile, node_doc_path, error_message, results>>
           ELSE /\ cp' = r.cp
                /\ docs' = r.docs
                /\ ckfile' = save_checkpoint(r.cp)
                /\ status' = [status EXCEPT ![n] = r.status]
                /\ node_doc_path' = [node_doc_path EXCEPT ![n] =
                                        IF r.success THEN r.doc_path ELSE @]
                /\ error_message' = [error_message EXCEPT ![n] = r.error]
                /\ results' = IF cb = "ok" THEN results \cup {<<n, r.success>>}
                                            ELSE results
    /\ pc' = [pc EXCEPT ![NodeJob(n)] = "done"]
    /\ attempt' = [attempt EXCEPT ![NodeJob(n)] = 0]
    /\ last_exception' = [last_exception EXCEPT ![NodeJob(n)] = NoException]
    /\ permits' = permits + 1
    /\ faults' = faults + fault_cost(resp, io, FALSE) + callback_cost(cb)
    /\ faults' <= MaxFaults
    /\ UNCHANGED <<phase, depth, queue, worker_count, failed_nodes, generated, run,
                   resume, deletes, outcome, called, missing_at_start, clean_rerun>>
    /\ ever_marked' = IF cb # "raises_early"
                     /\ on_complete(cp, docs, n,
                           execute_task_result(
                             execute(attempt[NodeJob(n)], validate(resp, attempt[NodeJob(n)])) = "return",
                             resp, RetryExhaustedError(validate(resp, attempt[NodeJob(n)]))),
                           io).success
                  THEN ever_marked \cup {n} ELSE ever_marked
    /\ UNCHANGED <<last_op, ops, at_start, reported, llm_content, usage, lq, dir_branch,
                   table, comparison, scanner>>

\* the worker's step when the progress display works
FileReturn(n, resp, io) == FileEnd(n, resp, io, "ok")

\* the worker's step when the progress display raises inside the callback
FileCallbackRaises(n, resp, io, cb) == cb # "ok" /\ FileEnd(n, resp, io, cb)

\* faulty variant of FilesDone: process_all returns without queue.join()
FilesDone_without_join ==
    /\ phase = "files"
    /\ phase' = "dirs"
    /\ worker_count' = 0
    /\ UNCHANGED <<docs, ckfile, cp, status, node_doc_path, error_message, depth, queue,
                   results, failed_nodes, pc, attempt, last_exception, permits,
                   generated, run, resume, deletes, outcome, called, missing_at_start,
                   clean_rerun, faults>>
    /\ UNCHANGED harness_vars

\* queue.join() returns: every submitted task is done; _process_level goes on
\* to the directories of the level
FilesDone ==
    /\ phase = "files"
    /\ queue = << >>
    /\ workers_busy = 0
    /\ phase' = "dirs"
    /\ worker_count' = 0
    /\ UNCHANGED <<docs, ckfile, cp, status, node_doc_path, error_message, depth, queue,
                   results, failed_nodes, pc, attempt, last_exception, permits,
                   generated, run, resume, deletes, outcome, called, missing_at_start,
                   clean_rerun,
                   faults>>
    /\ UNCHANGED harness_vars

\* what writing the placeholder of directory n costs of the fault budget
placeholder_cost(n, io, rd) ==
    IF /\ ~is_completed(cp, docs, n)
       /\ read_child_summaries(docs, node_doc_path, n, rd) = {}
       /\ io = "fails"
    THEN 1 ELSE 0

\* the branch of _process_single_directory a directory takes: the early
\* return for a completed one, the placeholder (saved or not) when sub_docs
\* is empty, the model call otherwise
branch_taken(c, d, ndp, n, io, rd) ==
    IF is_completed(c, d, n) THEN "completed"
    ELSE IF read_child_summaries(d, ndp, n, rd) = {}
         THEN IF io = "ok" THEN "placeholder" ELSE "unsaved"
         ELSE "call"

\* what the reads of the child documents cost of the fault budget
read_cost(n, rd) == IF rd = "fails" THEN 1 ELSE 0

\* LevelProcessor._process_single_directory up to the first model call: a
\* completed directory is skipped, one without readable child documents gets
\* the placeholder, any other acquires the semaphore and calls the model
DirStart(n, io, rd) ==
    /\ phase = "dirs"
    /\ n \in level_dirs(depth)
    /\ pc[NodeJob(n)] = "idle"
    /\ rd = "fails" => /\ ~is_completed(cp, docs, n)
                       /\ read_child_summaries(docs, node_doc_path, n, "ok") # {}
    /\ IF is_completed(cp, docs, n)
       THEN /\ status' = [status EXCEPT ![n] = COMPLETED]
            /\ node_doc_path' = [node_doc_path EXCEPT ![n] = get_doc_path(cp, n)]
            /\ results' = results \cup {<<n, TRUE>>}
            /\ pc' = [pc EXCEPT ![NodeJob(n)] = "done"]
            /\ UNCHANGED <<docs, ckfile, cp, error_message, permits, called>>
       ELSE IF read_child_summaries(docs, node_doc_path, n, rd) = {}
       THEN /\ docs' = save_document(docs, generate_doc_path(n), "plain", io)
            /\ cp' = IF io = "ok" THEN mark_completed(cp, n, generate_doc_path(n))
                                  ELSE mark_failed(cp, n)
            /\ ckfile' = save_checkpoint(cp')
            /\ status' = [status EXCEPT ![n] = IF io = "ok" THEN COMPLETED ELSE FAILED]
            /\ node_doc_path' = [node_doc_path EXCEPT ![n] =
                                    IF io = "ok" THEN generate_doc_path(n) ELSE @]
            /\ error_message' = [error_message EXCEPT ![n] =
                                    IF io = "ok" THEN @ ELSE OSError]
            /\ results' = results \cup {<<n, io = "ok">>}
            /\ pc' = [pc EXCEPT ![NodeJob(n)] = "done"]
            /\ UNCHANGED <<permits, called>>
       ELSE /\ semaphore_free(permits)
            /\ permits' = permits - 1
            /\ pc' = [pc EXCEPT ![NodeJob(n)] = "call"]
            /\ called' = called \cup {NodeJob(n)}
            /\ UNCHANGED <<docs, ckfile, cp, status, node_doc_path, error_message,
                           results>>
    /\ dir_branch' = [dir_branch EXCEPT ![n] = branch_taken(cp, docs, node_doc_path, n, io, rd)]
    /\ faults' = faults + placeholder_cost(n, io, rd) + read_cost(n, rd)
    /\ faults' <= MaxFaults
    /\ UNCHANGED <<phase, depth, queue, worker_count, failed_nodes, attempt,
                   last_exception, generated, run, resume, deletes, outcome,
                   missing_at_start, clean_rerun>>
    /\ ever_marked' = IF branch_taken(cp, docs, node_doc_path, n, io, rd) = "placeholder"
                  THEN ever_marked \cup {n} ELSE ever_marked
    /\ UNCHANGED <<last_op, ops, at_start, reported, llm_content, usage, lq, table, comparison, scanner>>

\* _process_single_directory from the end of execute() on: the semaphore is
\* released, then the summary is saved and the directory marked, or the
\* exception handler marks it failed
DirReturn(n, resp, io) ==
    /\ phase = "dirs"
    /\ is_dir(n)
    /\ pc[NodeJob(n)] = "call"
    /\ execute(attempt[NodeJob(n)], validate(resp, attempt[NodeJob(n)])) # "retry"
    /\ LET exc == validate(resp, attempt[NodeJob(n)])
           returned == execute(attempt[NodeJob(n)], exc) = "return"
           ok == returned /\ io = "ok"
       IN  /\ docs' = IF returned THEN save_document(docs, generate_doc_path(n), resp, io)
                                  ELSE docs
           /\ cp' = IF ok THEN mark_completed(cp, n, generate_doc_path(n))
                          ELSE mark_failed(cp, n)
           /\ ckfile' = save_checkpoint(cp')
           /\ status' = [status EXCEPT ![n] = IF ok THEN COMPLETED ELSE FAILED]
           /\ node_doc_path' = [node_doc_path EXCEPT ![n] =
                                   IF ok THEN generate_doc_path(n) ELSE @]
           /\ error_message' = [error_message EXCEPT ![n] =
                                   IF ok THEN @
                                   ELSE IF returned THEN OSError
                                   ELSE RetryExhaustedError(exc).last_exception]
           /\ results' = results \cup {<<n, ok>>}
    /\ pc' = [pc EXCEPT ![NodeJob(n)] = "done"]
    /\ attempt' = [attempt EXCEPT ![NodeJob(n)] = 0]
    /\ last_exception' = [last_exception EXCEPT ![NodeJob(n)] = NoException]
    /\ permits' = permits + 1
    /\ faults' = faults + fault_cost(resp, io, FALSE)
    /\ faults' <= MaxFaults
    /\ UNCHANGED <<phase, depth, queue, worker_count, failed_nodes, generated, run,
                   resume, deletes, outcome, called, missing_at_start, clean_rerun>>
    /\ ever_marked' = IF /\ execute(attempt[NodeJob(n)], validate(resp, attempt[NodeJob(n)])) = "return"
                     /\ io = "ok"
                  THEN ever_marked \cup {n} ELSE ever_marked
    /\ UNCHANGED <<last_op, ops, at_start, reported, llm_content, usage, lq, dir_branch,
                   table, comparison, scanner>>

\* a directory task that ends cancelled: CancelledError passes the handlers of
\* _process_single_directory ("except Exception"), the semaphore is released,
\* gather(return_exceptions=True) hands the exception object back, and since
\* it is no Exception _process_directories appends it as the task's result,
\* which _process_level reads as true
DirCancelled(n) ==
    /\ phase = "dirs"
    /\ is_dir(n)
    /\ pc[NodeJob(n)] = "call"
    /\ results' = results \cup {<<n, TRUE>>}
    /\ pc' = [pc EXCEPT ![NodeJob(n)] = "done"]
    /\ attempt' = [attempt EXCEPT ![NodeJob(n)] = 0]
    /\ last_exception' = [last_exception EXCEPT ![NodeJob(n)] = NoException]
    /\ permits' = permits + 1
    /\ faults' = faults + 1
    /\ faults' <= MaxFaults
    /\ UNCHANGED <<docs, ckfile, cp, status, node_doc_path, error_message, phase, depth,
                   queue, worker_count, failed_nodes, generated, run, resume, deletes,
                   outcome, called, missing_at_start, clean_rerun>>
    /\ UNCHANGED harness_vars

\* faulty variant of level_success: a level with failed nodes counts as done
level_success_ignoring_failures(res) == TRUE

\* _process_level: the nodes that failed at the level, and its return value
level_failed(res) == {n \in Nodes : <<n, FALSE>> \in res}
level_success(res) == Cardinality(level_failed(res)) = 0

\* gather() of _process_directories returns; _process_level collects the failed
\* nodes and process_all_levels moves to the next level, returns False after a
\* failure, or returns True after depth 0; analyze() returns False in turn
LevelDone ==
    /\ phase = "dirs"
    /\ \A n \in level_dirs(depth) : pc[NodeJob(n)] = "done"
    /\ LET failed == level_failed(results)
           success == level_success(results)
       IN  /\ failed_nodes' = failed_nodes \cup failed
           /\ IF ~success /\ failed_nodes' # {}
              THEN /\ ckfile' = save_checkpoint(cp)
                   /\ phase' = "stopped"
                   /\ outcome' = "failed"
                   /\ depth' = depth
              ELSE IF depth > 0
              THEN /\ phase' = "level"
                   /\ depth' = depth - 1
                   /\ UNCHANGED <<ckfile, outcome>>
              ELSE /\ ckfile' = save_checkpoint(cp)
                   /\ phase' = "final"
                   /\ UNCHANGED <<depth, outcome>>
    /\ results' = {}
    /\ UNCHANGED <<docs, cp, status, node_doc_path, error_message, queue, worker_count,
                   pc, attempt, last_exception, permits, generated, run, resume, deletes,
                   called, missing_at_start, clean_rerun,
                   faults>>
    /\ UNCHANGED harness_vars

\* ------------------------------------------------------------ final documents
FinalKinds == {"readme", "guide", "api", "usage"}
FinalJob(k) == <<k, ROOT>>
final_path(k) ==
    IF k = "readme" THEN readme_path
    ELSE IF k = "guide" THEN reading_guide_path
    ELSE IF k = "api" THEN api_doc_path
    ELSE api_usage_doc_path
\* the order of the final documents in analyze()
next_phase(k) ==
    IF k = "readme" THEN "guide"
    ELSE IF k = "guide" THEN "api"
    ELSE IF k = "api" THEN "usage"
    ELSE "finish"
is_final_completed(k, c, d) ==
    IF k = "readme" THEN is_readme_completed(c, d)
    ELSE IF k = "guide" THEN is_reading_guide_completed(c, d)
    ELSE IF k = "api" THEN is_api_doc_completed(c, d)
    ELSE is_api_usage_doc_completed(c, d)
mark_final_completed(k, c) ==
    IF k = "readme" THEN [c EXCEPT !.readme_completed = TRUE]
    ELSE IF k = "guide" THEN [c EXCEPT !.reading_guide_completed = TRUE]
    ELSE IF k = "api" THEN [c EXCEPT !.api_doc_completed = TRUE]
    ELSE [c EXCEPT !.api_usage_doc_completed = TRUE]
details_map(k, c) == IF k = "api" THEN c.api_details_map ELSE c.api_usage_details_map
DetailsJob(k, f) == IF k = "api" THEN ExtractJob(f) ELSE UsageExtractJob(f)
extract_phase(k) == IF k = "api" THEN "api_extract" ELSE "usage_extract"
stage2_phase(k) == IF k = "api" THEN "api_stage2" ELSE "usage_stage2"

\* analyze() after process_all_levels returned True: scan_final_docs
FinalBegin ==
    /\ phase = "final"
    /\ cp' = scan_final_docs(cp, docs)
    /\ phase' = "readme"
    /\ UNCHANGED <<docs, ckfile, status, node_doc_path, error_message, depth, queue,
                   worker_count, results, failed_nodes, pc, attempt, last_exception,
                   permits, generated, run, resume, deletes, outcome, called,
                   missing_at_start, clean_rerun,
                   faults>>
    /\ UNCHANGED harness_vars

\* analyze() at the README or the reading guide: skip a completed document,
\* else generate_readme / generate_reading_guide up to the first model call
SimpleStart(k) ==
    /\ k \in {"readme", "guide"}
    /\ phase = k
    /\ pc[FinalJob(k)] = "idle"
    /\ IF \/ is_final_completed(k, cp, docs)
          \/ read_child_summaries(docs, node_doc_path, ROOT, "ok") = {}
       THEN /\ phase' = next_phase(k)
            /\ UNCHANGED <<pc, permits, called>>
       ELSE /\ semaphore_free(permits)
            /\ permits' = permits - 1
            /\ pc' = [pc EXCEPT ![FinalJob(k)] = "call"]
            /\ called' = called \cup {FinalJob(k)}
            /\ phase' = phase
    /\ UNCHANGED <<docs, ckfile, cp, status, node_doc_path, error_message, depth, queue,
                   worker_count, results, failed_nodes, attempt, last_exception,
                   generated, run, resume, deletes, outcome, missing_at_start,
                   clean_rerun,
                   faults>>
    /\ UNCHANGED harness_vars

\* DocumentGenerator defines save_readme and save_reading_guide; it defines no
\* save_api_doc and no save_api_usage_doc, so the call the API generators make
\* after stage two raises AttributeError
has_save_method(k) == k \in {"readme", "guide"}

\* the end of a final document's model call (README, reading guide, stage two
\* of the API document, the usage document): release, save, mark completed; any
\* exception, the one of a missing save method included, makes the generator
\* return None
FinalReturn(k, resp, io) ==
    /\ k \in FinalKinds
    /\ phase = IF k \in {"readme", "guide"} THEN k ELSE stage2_phase(k)
    /\ pc[FinalJob(k)] = "call"
    /\ execute(attempt[FinalJob(k)], validate(resp, attempt[FinalJob(k)])) # "retry"
    /\ has_save_method(k) \/ io = "ok"
    /\ LET exc == validate(resp, attempt[FinalJob(k)])
           ok == /\ execute(attempt[FinalJob(k)], exc) = "return"
                 /\ has_save_method(k)
                 /\ io = "ok"
       IN  /\ docs' = IF ok THEN save_document(docs, final_path(k), resp, io) ELSE docs
           /\ cp' = IF ok THEN mark_final_completed(k, cp) ELSE cp
           /\ ckfile' = IF ok THEN save_checkpoint(cp') ELSE ckfile
           /\ generated' = IF ok THEN generated \cup {final_path(k)} ELSE generated
    /\ pc' = [pc EXCEPT ![FinalJob(k)] = "done"]
    /\ attempt' = [attempt EXCEPT ![FinalJob(k)] = 0]
    /\ last_exception' = [last_exception EXCEPT ![FinalJob(k)] = NoException]
    /\ permits' = permits + 1
    /\ phase' = next_phase(k)
    /\ faults' = faults + fault_cost(resp, io, TRUE)
    /\ faults' <= MaxFaults
    /\ UNCHANGED <<status, node_doc_path, error_message, depth, queue, worker_count,
                   results, failed_nodes, run, resume, deletes, outcome, called,
                   missing_at_start, clean_rerun>>
    /\ llm_content' =
          IF /\ k \in {"api", "usage"}
             /\ execute(attempt[FinalJob(k)], validate(resp, attempt[FinalJob(k)])) = "return"
          THEN [llm_content EXCEPT ![k] = resp]
          ELSE llm_content
    /\ UNCHANGED <<last_op, ops, at_start, reported, usage, lq, dir_branch,
                   table, ever_marked, comparison, scanner>>

\* faulty variant of has_api_details: the cache is never consulted
pending_all(k, c) == c.api_files

\* generate_api_doc: the API files without a stage-one entry
pending_files(k, c) == {f \in c.api_files : forward_slashes(f) \notin DOMAIN details_map(k, c)}

\* analyze() at the API document or the usage document: skip a completed one;
\* generate_api_doc / generate_api_usage_doc return None without API files,
\* else start stage one for the files that have no details yet
ApiStart(k) ==
    /\ k \in {"api", "usage"}
    /\ phase = k
    /\ LET pending == pending_files(k, cp)
       IN  IF is_final_completed(k, cp, docs) \/ cp.api_files = {}
           THEN /\ phase' = next_phase(k)
                /\ pc' = pc
           ELSE IF pending # {}
           THEN /\ phase' = extract_phase(k)
                /\ pc' = [j \in Jobs |-> IF \E f \in pending : j = DetailsJob(k, f)
                                         THEN "wait" ELSE pc[j]]
           ELSE /\ phase' = stage2_phase(k)
                /\ pc' = pc
    /\ UNCHANGED <<docs, ckfile, cp, status, node_doc_path, error_message, depth, queue,
                   worker_count, results, failed_nodes, attempt, last_exception, permits,
                   generated, run, resume, deletes, outcome, called, missing_at_start,
                   clean_rerun,
                   faults>>
    /\ UNCHANGED harness_vars

\* extract_single: the document path of an API file, from the checkpoint's
\* path map, else from the file node
extract_doc_path(c, ndp, f) ==
    IF f \in DOMAIN c.doc_path_map THEN c.doc_path_map[f]
    ELSE IF f \in Files THEN ndp[f]
    ELSE NoPath

\* extract_single up to the first model call: give up when the file's document
\* cannot be found, else acquire the semaphore and call the model
ExtractStart(k, f) ==
    /\ k \in {"api", "usage"}
    /\ phase = extract_phase(k)
    /\ pc[DetailsJob(k, f)] = "wait"
    /\ IF extract_doc_path(cp, node_doc_path, f) \notin DOMAIN docs
       THEN /\ pc' = [pc EXCEPT ![DetailsJob(k, f)] = "done"]
            /\ UNCHANGED <<permits, called>>
       ELSE /\ semaphore_free(permits)
            /\ permits' = permits - 1
            /\ pc' = [pc EXCEPT ![DetailsJob(k, f)] = "call"]
            /\ called' = called \cup {DetailsJob(k, f)}
    /\ UNCHANGED <<docs, ckfile, cp, status, node_doc_path, error_message, phase, depth,
                   queue, worker_count, results, failed_nodes, attempt, last_exception,
                   generated, run, resume, deletes, outcome, missing_at_start,
                   clean_rerun,
                   faults>>
    /\ UNCHANGED harness_vars

\* extract_single from the end of execute() on: release the semaphore and save
\* the details; an exception is only logged
ExtractReturn(k, f, resp) ==
    /\ k \in {"api", "usage"}
    /\ phase = extract_phase(k)
    /\ pc[DetailsJob(k, f)] = "call"
    /\ execute(attempt[DetailsJob(k, f)], validate(resp, attempt[DetailsJob(k, f)]))
          # "retry"
    /\ LET exc == validate(resp, attempt[DetailsJob(k, f)])
           returned == execute(attempt[DetailsJob(k, f)], exc) = "return"
       IN  /\ cp' = IF ~returned THEN cp
                    ELSE IF k = "api" THEN save_api_details(cp, f, "details")
                    ELSE save_api_usage_details(cp, f, "details")
           /\ ckfile' = IF returned THEN save_checkpoint(cp') ELSE ckfile
    /\ pc' = [pc EXCEPT ![DetailsJob(k, f)] = "done"]
    /\ attempt' = [attempt EXCEPT ![DetailsJob(k, f)] = 0]
    /\ last_exception' = [last_exception EXCEPT ![DetailsJob(k, f)] = NoException]
    /\ permits' = permits + 1
    /\ faults' = faults + fault_cost(resp, "ok", FALSE)
    /\ faults' <= MaxFaults
    /\ UNCHANGED <<docs, status, node_doc_path, error_message, phase, depth, queue,
                   worker_count, results, failed_nodes, generated, run, resume, deletes,
                   outcome, called, missing_at_start, clean_rerun>>
    /\ UNCHANGED harness_vars

\* gather() of the stage-one batch returns
ExtractDone(k) ==
    /\ k \in {"api", "usage"}
    /\ phase = extract_phase(k)
    /\ \A f \in ApiCandidates : pc[DetailsJob(k, f)] \in {"idle", "done"}
    /\ phase' = stage2_phase(k)
    /\ UNCHANGED <<docs, ckfile, cp, status, node_doc_path, error_message, depth, queue,
                   worker_count, results, failed_nodes, pc, attempt, last_exception,
                   permits, generated, run, resume, deletes, outcome, called,
                   missing_at_start, clean_rerun,
                   faults>>
    /\ UNCHANGED harness_vars

\* the missing_files list of stage two: the API files without a details entry
missing_files(k, c) == {f \in c.api_files : f \notin DOMAIN details_map(k, c)}

\* stage two: return None when no details exist at all; log the files without
\* details and return None when there are any; else acquire the semaphore and
\* call the model once for the final text
Stage2Start(k) ==
    /\ k \in {"api", "usage"}
    /\ phase = stage2_phase(k)
    /\ pc[FinalJob(k)] = "idle"
    /\ IF DOMAIN details_map(k, cp) = {}
       THEN /\ phase' = next_phase(k)
            /\ UNCHANGED <<pc, permits, called, reported>>
       ELSE IF missing_files(k, cp) # {}
       THEN /\ phase' = next_phase(k)
            /\ reported' = [reported EXCEPT ![k] = missing_files(k, cp)]
            /\ UNCHANGED <<pc, permits, called>>
       ELSE /\ semaphore_free(permits)
            /\ permits' = permits - 1
            /\ pc' = [pc EXCEPT ![FinalJob(k)] = "call"]
            /\ called' = called \cup {FinalJob(k)}
            /\ phase' = phase
            /\ UNCHANGED reported
    /\ UNCHANGED <<docs, ckfile, cp, status, node_doc_path, error_message, depth, queue,
                   worker_count, results, failed_nodes, attempt, last_exception,
                   generated, run, resume, deletes, outcome, missing_at_start,
                   clean_rerun,
                   faults>>
    /\ UNCHANGED <<last_op, ops, at_start, llm_content, usage, lq, dir_branch,
                   table, ever_marked, comparison, scanner>>

\* the documents a run that returns True is expected to leave behind
expected_final_docs(c) ==
    {readme_path, reading_guide_path}
    \cup (IF c.api_files = {} THEN {} ELSE {api_doc_path, api_usage_doc_path})

\* analyze() returns True
Finish ==
    /\ phase = "finish"
    /\ phase' = "stopped"
    /\ outcome' = IF \A k \in FinalKinds :
                        final_path(k) \in expected_final_docs(cp)
                            => is_final_completed(k, cp, docs)
                  THEN "complete" ELSE "incomplete"
    /\ UNCHANGED <<docs, ckfile, cp, status, node_doc_path, error_message, depth, queue,
                   worker_count, results, failed_nodes, pc, attempt, last_exception,
                   permits, generated, run, resume, deletes, called, missing_at_start,
                   clean_rerun,
                   faults>>
    /\ UNCHANGED harness_vars

Next ==
    \/ \E r \in ResumeChoices : StartRun(r)
    \/ \E p \in DOMAIN docs : DeleteDoc(p)
    \/ DeleteCheckpoint
    \/ ProcessFiles
    \/ WorkerGet
    \/ \E j \in Jobs, resp \in FileResponses : Retry(j, resp)
    \/ \E n \in Files, resp \in FileResponses, io \in IoOutcomes : FileReturn(n, resp, io)
    \/ FilesDone
    \/ \E n \in Dirs, io, rd \in IoOutcomes : DirStart(n, io, rd)
    \/ \E n \in Dirs, resp \in TextResponses, io \in IoOutcomes : DirReturn(n, resp, io)
    \/ LevelDone
    \/ FinalBegin
    \/ \E k \in FinalKinds : SimpleStart(k)
    \/ \E k \in FinalKinds, resp \in FinalResponses, io \in IoOutcomes :
          FinalReturn(k, resp, io)
    \/ \E k \in FinalKinds : ApiStart(k)
    \/ \E k \in FinalKinds, f \in ApiCandidates : ExtractStart(k, f)
    \/ \E k \in FinalKinds, f \in ApiCandidates, resp \in TextResponses :
          ExtractReturn(k, f, resp)
    \/ \E k \in FinalKinds : ExtractDone(k)
    \/ \E k \in FinalKinds : Stage2Start(k)
    \/ Finish

Spec == Init /\ [][Next]_vars

\* the pipeline in an environment where, besides, the progress display may
\* raise inside the completion callback and a directory task may be cancelled
NextRaising ==
    \/ Next
    \/ \E n \in Files, resp \in FileResponses, io \in IoOutcomes, cb \in CallbackOutcomes :
          FileCallbackRaises(n, resp, io, cb)
    \/ \E n \in Dirs : DirCancelled(n)

SpecRaising == Init /\ [][NextRaising]_vars

\* ------------------------------------------------- the service on its own
\* CheckpointService driven by arbitrary callers: any order of its mutating
\* methods, documents written and deleted behind its back, the checkpoint
\* file deleted, and the process replaced by a new one (a crash and restart)
op_record(name, arg, c, w) ==
    [op |-> name, arg |-> arg, write |-> w,
     write_failures |-> last_op.write_failures
                           + (IF w \in {"refused", "torn"} THEN 1 ELSE 0), was_new |-> arg \notin c.api_files,
     was_failed |-> arg \in c.failed_files,
     api_doc_completed |-> c.api_doc_completed,
     api_usage_doc_completed |-> c.api_usage_doc_completed]

\* how the write in save_checkpoint may end: the file written; open() refused,
\* the file as it was; the dump broken off, the file truncated and unreadable
CheckpointWrites == {"ok", "refused", "torn"}

\* the outcomes the next write may have within the bound
allowed_writes ==
    IF last_op.write_failures < MaxWriteFailures THEN CheckpointWrites ELSE {"ok"}

\* the checkpoint file after the try block of save_checkpoint; the exception
\* of a failed write is logged and goes no further
written(file, content, w) ==
    IF w = "ok" THEN content
    ELSE IF w = "refused" THEN file
    ELSE NoCheckpointFile

InitCkpt ==
    /\ Init

\* some caller writes a document, as DocumentGenerator._save_document does
CkWriteDoc(p, kind) ==
    /\ ops < MaxOps
    /\ docs' = With(docs, p, kind)
    /\ last_op' = op_record("write", p, cp, "none")
    /\ ops' = ops + 1
    /\ UNCHANGED <<cp, ckfile>>
    /\ UNCHANGED pipeline_vars

\* a document is deleted from outside
CkDeleteDoc(p) ==
    /\ ops < MaxOps
    /\ p \in DOMAIN docs
    /\ docs' = Without(docs, p)
    /\ last_op' = op_record("delete", p, cp, "none")
    /\ ops' = ops + 1
    /\ UNCHANGED <<cp, ckfile>>
    /\ UNCHANGED pipeline_vars

\* CheckpointService.mark_completed with auto_save
CkMarkCompleted(n, w) ==
    /\ ops < MaxOps
    /\ cp' = mark_completed(cp, n, generate_doc_path(n))
    /\ ckfile' = written(ckfile, save_checkpoint(cp'), w)
    /\ last_op' = op_record("mark_completed", n, cp, w)
    /\ ops' = ops + 1
    /\ UNCHANGED docs
    /\ UNCHANGED pipeline_vars

\* CheckpointService.mark_failed with auto_save
CkMarkFailed(n, w) ==
    /\ ops < MaxOps
    /\ cp' = mark_failed(cp, n)
    /\ ckfile' = written(ckfile, save_checkpoint(cp'), w)
    /\ last_op' = op_record("mark_failed", n, cp, w)
    /\ ops' = ops + 1
    /\ UNCHANGED docs
    /\ UNCHANGED pipeline_vars

\* CheckpointService.mark_has_api with auto_save
CkMarkHasApi(f, w) ==
    /\ ops < MaxOps
    /\ cp' = mark_has_api(cp, f, "info")
    /\ ckfile' = written(ckfile, save_checkpoint(cp'), w)
    /\ last_op' = op_record("mark_has_api", f, cp, w)
    /\ ops' = ops + 1
    /\ UNCHANGED docs
    /\ UNCHANGED pipeline_vars

\* mark_readme_completed, mark_reading_guide_completed, mark_api_doc_completed,
\* mark_api_usage_doc_completed with auto_save
CkMarkFinal(k, w) ==
    /\ ops < MaxOps
    /\ cp' = mark_final_completed(k, cp)
    /\ ckfile' = written(ckfile, save_checkpoint(cp'), w)
    /\ last_op' = op_record("mark_final", final_path(k), cp, w)
    /\ ops' = ops + 1
    /\ UNCHANGED docs
    /\ UNCHANGED pipeline_vars

\* save_api_details, save_api_usage_details with auto_save
CkSaveDetails(k, f, w) ==
    /\ ops < MaxOps
    /\ cp' = IF k = "api" THEN save_api_details(cp, f, "plain")
                          ELSE save_api_usage_details(cp, f, "plain")
    /\ ckfile' = written(ckfile, save_checkpoint(cp'), w)
    /\ last_op' = op_record("save_details", f, cp, w)
    /\ ops' = ops + 1
    /\ UNCHANGED docs
    /\ UNCHANGED pipeline_vars

\* the process dies and a new one starts: a fresh service, which with resume
\* loads the checkpoint file and scans the documents
CkRestart(r) ==
    /\ ops < MaxOps
    /\ cp' = IF r THEN scan_existing_docs(load_checkpoint(CheckpointService, ckfile)[2],
                                           docs)
                  ELSE CheckpointService
    /\ last_op' = op_record("restart", NoPath, cp, "none")
    /\ ops' = ops + 1
    /\ UNCHANGED <<docs, ckfile>>
    /\ UNCHANGED pipeline_vars

NextCkpt ==
    \/ \E n \in Nodes, kind \in {"api", "plain"} : CkWriteDoc(generate_doc_path(n), kind)
    \/ \E p \in FinalPaths : CkWriteDoc(p, "plain")
    \/ \E p \in DOMAIN docs : CkDeleteDoc(p)
    \/ \E n \in Nodes : CkMarkCompleted(n, "ok")
    \/ \E n \in Nodes : CkMarkFailed(n, "ok")
    \/ \E f \in Files : CkMarkHasApi(f, "ok")
    \/ \E k \in FinalKinds : CkMarkFinal(k, "ok")
    \/ \E k \in {"api", "usage"}, f \in Files : CkSaveDetails(k, f, "ok")
    \/ \E r \in BOOLEAN : CkRestart(r)

SpecCkpt == InitCkpt /\ [][NextCkpt]_vars

\* the service with checkpoint writes that may fail, at most MaxWriteFailures
\* times: the documents of the nodes are written, the nodes marked, the
\* process restarted with resume
NextCkptIo ==
    \/ \E n \in Nodes : CkWriteDoc(generate_doc_path(n), "plain")
    \/ \E n \in Nodes, w \in allowed_writes : CkMarkCompleted(n, w)
    \/ \E n \in Nodes, w \in allowed_writes : CkMarkFailed(n, w)
    \/ \E f \in Files, w \in allowed_writes : CkMarkHasApi(f, w)
    \/ \E k \in FinalKinds, w \in allowed_writes : CkMarkFinal(k, w)
    \/ \E k \in {"api", "usage"}, f \in Files, w \in allowed_writes :
          CkSaveDetails(k, f, w)
    \/ CkRestart(TRUE)

SpecCkptIo == InitCkpt /\ [][NextCkptIo]_vars

\* ----------------------------------------- the usage document's strategy
\* generate_api_usage_doc after stage one, for any number of API files (each
\* with its details) and any API document in the docs root
InitUsage ==
    /\ InitProgram
    /\ docs = EmptyMap
    /\ lq = LLMQueue(MaxConcurrent)
    /\ table = NoTable
    /\ usage \in {[NoUsage EXCEPT !.api_files = n, !.api_doc_exists = x, !.api_doc = c] :
                      n \in {1, MaxApiFiles}, x \in BOOLEAN, c \in ApiDocContents}

\* level_processor.py 856-874: read the interface count, choose the strategy
ChooseUsageStrategy ==
    /\ usage.strategy = "none"
    /\ LET api_count == get_api_info_for_usage_doc(usage.api_doc_exists, usage.api_doc)
       IN  usage' = [usage EXCEPT !.api_count = api_count,
                                  !.strategy = usage_strategy(api_count)]
    /\ UNCHANGED <<docs, ckfile, cp, status, node_doc_path, error_message, phase, depth,
                   queue, worker_count, results, failed_nodes, pc, attempt,
                   last_exception, permits, generated, run, resume, deletes, outcome,
                   called, missing_at_start, clean_rerun, faults, last_op, ops,
                   at_start, reported, llm_content, lq, dir_branch,
                   table, ever_marked, comparison, scanner>>

NextUsage == ChooseUsageStrategy

SpecUsage == InitUsage /\ [][NextUsage]_vars

\* ------------------------------------------------------ the queue on its own
\* LLMQueue with any max_concurrent >= 1, any batch, task results of either
\* kind and a completion callback that may raise; the steps are the stretches
\* of code between two awaits
InitQueue ==
    /\ InitProgram
    /\ docs = EmptyMap
    /\ usage = NoUsage
    /\ lq \in {LLMQueue(m) : m \in Workers}
    /\ table = NoTable

QueueUnchanged ==
    UNCHANGED <<docs, ckfile, cp, status, node_doc_path, error_message, phase, depth,
                queue, worker_count, results, failed_nodes, pc, attempt, last_exception,
                permits, generated, run, resume, deletes, outcome, called,
                missing_at_start, clean_rerun, faults, last_op, ops, at_start,
                reported, llm_content, usage, dir_branch,
                   table, ever_marked, comparison, scanner>>

\* LLMQueue.submit, as submit_batch calls it for each task
submit ==
    /\ lq.at = "submit"
    /\ lq.stats_total < MaxTasks
    /\ lq' = [lq EXCEPT !.queue = Append(@, lq.stats_total + 1),
                        !.unfinished = @ + 1,
                        !.stats_total = @ + 1,
                        !.stats_queued = @ + 1]
    /\ QueueUnchanged

\* process_all up to queue.join(): {} for an empty queue, else the workers
\* are started
process_all ==
    /\ lq.at = "submit"
    /\ IF lq.queue = << >>
       THEN lq' = [lq EXCEPT !.at = "returned"]
       ELSE lq' = [lq EXCEPT !.running = TRUE,
                             !.wpc = [w \in Workers |->
                                        IF w <= Min(lq.max_concurrent, lq.stats_queued)
                                        THEN "get" ELSE "none"],
                             !.at = "join"]
    /\ QueueUnchanged

\* faulty variant of dequeue: the task is handed out and stays in the queue
dequeue_keeping(q) == q

\* asyncio.Queue.get: the queue without the item handed out
dequeue(q) == Tail(q)

\* _worker: queue.get() hands the next task to worker w
worker_get(w) ==
    /\ lq.running
    /\ lq.wpc[w] = "get"
    /\ lq.queue # << >>
    /\ lq' = [lq EXCEPT !.wtask[w] = Head(lq.queue),
                        !.queue = dequeue(@),
                        !.wpc[w] = "acquire"]
    /\ QueueUnchanged

\* _worker: "async with self.semaphore" lets worker w in; _execute_task starts
worker_acquire(w) ==
    /\ lq.wpc[w] = "acquire"
    /\ semaphore_free(lq.permits)
    /\ lq' = [lq EXCEPT !.permits = @ - 1,
                        !.stats_queued = @ - 1,
                        !.wpc[w] = "execute"]
    /\ QueueUnchanged

\* _worker: _execute_task returns its AnalysisResult (a summary, or the error
\* of exhausted retries); the result is stored and the callback invoked
worker_execute(w, success) ==
    /\ lq.wpc[w] = "execute"
    /\ lq' = [lq EXCEPT !.executed[lq.wtask[w]] = @ + 1,
                        !.results = {r \in @ : r[1] # lq.wtask[w]}
                                        \cup {<<lq.wtask[w], success>>},
                        !.completed[lq.wtask[w]] = @ + 1,
                        !.wpc[w] = "callback"]
    /\ QueueUnchanged

\* faulty variant of release: the permit is kept when the block is left
release_leaking(p) == p

\* asyncio.Semaphore: leaving "async with" gives the permit back
release(p) == p + 1

\* faulty variant of task_done_called: no task_done after a callback error
task_done_unless_error(task, raised) == task # NoTask /\ ~raised

\* _worker's finally block: task_done() whenever the worker holds a task
task_done_called(task, raised) == task # NoTask

\* _worker: the callback ends, by returning or by raising (caught and logged);
\* the semaphore is released, the finally block runs, the loop goes on
worker_callback(w, raised) ==
    /\ lq.wpc[w] = "callback"
    /\ lq' = [lq EXCEPT !.callback_errors =
                            IF raised THEN @ \cup {lq.wtask[w]} ELSE @,
                        !.permits = release(@),
                        !.unfinished =
                            IF task_done_called(lq.wtask[w], raised) THEN @ - 1 ELSE @,
                        !.wtask[w] = NoTask,
                        !.wpc[w] = "get"]
    /\ QueueUnchanged

\* what cancel() does to a worker: one waiting in queue.get() leaves the loop;
\* one holding a task releases the semaphore if it is inside "async with" and
\* calls task_done() in its finally block
cancelled(q, w) ==
    [q EXCEPT !.permits = IF q.wpc[w] \in {"execute", "callback"} THEN release(@) ELSE @,
              !.unfinished = IF q.wtask[w] # NoTask THEN @ - 1 ELSE @,
              !.wtask[w] = NoTask,
              !.wpc[w] = IF q.wpc[w] = "none" THEN "none" ELSE "stopped"]

RECURSIVE cancel_all(_, _)
cancel_all(q, w) == IF w = 0 THEN q ELSE cancel_all(cancelled(q, w), w - 1)

\* process_all from the return of queue.join(): the workers are cancelled and
\* gathered, the results returned
join_returns ==
    /\ lq.at = "join"
    /\ lq.unfinished = 0
    /\ lq' = [cancel_all([lq EXCEPT !.running = FALSE], MaxConcurrent)
                 EXCEPT !.at = "returned"]
    /\ QueueUnchanged

NextQueue ==
    \/ submit
    \/ process_all
    \/ \E w \in Workers : worker_get(w)
    \/ \E w \in Workers : worker_acquire(w)
    \/ \E w \in Workers, success \in BOOLEAN : worker_execute(w, success)
    \/ \E w \in Workers, raised \in BOOLEAN : worker_callback(w, raised)
    \/ join_returns

SpecQueue == InitQueue /\ [][NextQueue]_vars

\* the event loop runs every coroutine that is ready, and every model call
\* ends
SpecQueueLive == SpecQueue /\ WF_vars(NextQueue)

\* ------------------------------------------------------------------ claims
\* a node has begun processing in this run: it was skipped, queued or started
begun(n) == pc[NodeJob(n)] # "idle"
\* the node's processing in this run has ended
finished(n) == pc[NodeJob(n)] = "done"
called_nodes == {n \in Nodes : NodeJob(n) \in called}
FinalJobs == {FinalJob(k) : k \in FinalKinds}
             \cup {DetailsJob(k, f) : k \in {"api", "usage"}, f \in ApiCandidates}
in_record(c, n) == IF is_file(n) THEN n \in c.completed_files ELSE n \in c.completed_dirs

\* C1: once a node has begun processing, every deeper node has finished with
\* a terminal status; a directory whose aggregation has begun has only
\* children with a terminal status
C1_LevelOrder ==
    /\ \A n \in Nodes, m \in Nodes :
          begun(n) /\ node_depth(m) > node_depth(n)
              => finished(m) /\ status[m] \in Terminal
    /\ \A n \in Dirs :
          begun(n) => \A c \in node_children(n) : finished(c) /\ status[c] \in Terminal

\* a directory is being aggregated after its two files were analysed in this run
C1_Witness ==
    /\ pc[NodeJob(PKG)] = "call"
    /\ {NodeJob(FB), NodeJob(FC)} \subseteq called
    /\ status[FB] = COMPLETED
    /\ status[FC] = COMPLETED

\* C2: the number of model calls in flight over all call sites never exceeds
\* max_concurrent, and each of them holds one permit of the one semaphore
C2_GateBound ==
    /\ inflight <= MaxConcurrent
    /\ permits = MaxConcurrent - inflight

\* the gate is exhausted and a further call site is waiting for it
C2_Witness ==
    /\ inflight = MaxConcurrent
    /\ \E k \in {"api", "usage"}, f \in Files :
          /\ pc[DetailsJob(k, f)] = "wait"
          /\ extract_doc_path(cp, node_doc_path, f) \in DOMAIN docs

\* C3: is_completed is true exactly when the node is in the completed set of
\* its kind and its canonical document is on disk, whatever callers, crashes
\* and deletions did before
C3_CompletedIffRecordAndFile ==
    \A n \in Nodes :
        is_completed(cp, docs, n)
            <=> (in_record(cp, n) /\ generate_doc_path(n) \in DOMAIN docs)

\* a node still in the completed set after its document was deleted from
\* outside, and not reported complete
C3_Witness ==
    /\ last_op.op = "delete"
    /\ \E n \in Nodes :
          /\ last_op.arg = generate_doc_path(n)
          /\ in_record(cp, n)
          /\ ~is_completed(cp, docs, n)

\* C4 as stated: a resumed run that follows a complete run, with checkpoint and
\* documents left in place, calls the model for nothing
C4_NoCallsOnRerun == clean_rerun => called = {}

\* what remains of C4 when the scan has taken no final document for an API file
C4_NoCallsWithoutMarkerEcho ==
    (clean_rerun /\ cp.api_files \cap PseudoFiles = {}) => called = {}

all_levels_processed == \A n \in Nodes : finished(n)

\* the directories that got the placeholder branch in this run: none of their
\* child documents could be read, so no model call was made for them
placeholder_dirs == {n \in Dirs : dir_branch[n] \in {"placeholder", "unsaved"}}

failed_in_run == {n \in Nodes : finished(n) /\ status[n] = FAILED}
FinalPhases == {"final", "readme", "guide", "api", "api_extract", "api_stage2",
                "usage", "usage_extract", "usage_stage2", "finish"}

C7_FailureIsolated ==
    /\ \A n \in Nodes : finished(n) =>
          /\ status[n] = FAILED <=> n \in cp.failed_files
          /\ status[n] = FAILED <=> error_message[n] # NoException
    /\ (phase = "stopped" /\ outcome = "failed") =>
          /\ \A n \in depth_map(depth) : finished(n) /\ status[n] \in Terminal
          /\ failed_nodes = failed_in_run
          /\ \A n \in depth_map(depth) \ failed_in_run :
                status[n] = COMPLETED /\ is_completed(cp, docs, n)

\* a run stopped where one file of the deepest level failed and its sibling,
\* for which the model was called as well, completed
C7_Witness ==
    /\ phase = "stopped"
    /\ outcome = "failed"
    /\ failed_in_run = {FB}
    /\ status[FC] = COMPLETED
    /\ {NodeJob(FB), NodeJob(FC)} \subseteq called
    /\ cp.failed_files = {FB}

ModelErrors == {"TransportError", "ValueError"}

\* C8: execute() never starts an attempt beyond index max_retries; an attempt
\* after the first follows a failed attempt only; the retry-exhausted error
\* surfaces on a node only after attempt max_retries + 1 failed, carrying that
\* attempt's exception, and the node is Failed; a job that has ended is not
\* started again in the same run
C8_RetryBound ==
    /\ [](/\ \A j \in Jobs : attempt[j] <= MaxRetries
          /\ \A j \in Jobs : attempt[j] > 0 =>
                /\ pc[j] = "call"
                /\ last_exception[j].type \in ModelErrors
                /\ last_exception[j].attempt = attempt[j] - 1
          /\ \A n \in Nodes : error_message[n].type \in ModelErrors =>
                /\ RetryExhaustedError(error_message[n]).attempts
                      = error_message[n].attempt + 1
                /\ status[n] = FAILED
                /\ n \in cp.failed_files)
    /\ [][\A j \in Jobs :
             /\ (pc[j] = "done" /\ run' = run) => (pc'[j] = "done" /\ attempt'[j] = 0)
             /\ attempt'[j] # attempt[j] =>
                   \/ attempt'[j] = 0
                   \/ attempt'[j] = attempt[j] + 1 /\ last_exception'[j].type \in ModelErrors
         ]_vars

\* a file failed for good after the last allowed attempt failed in transport
C8_Witness ==
    \E n \in Files :
        /\ error_message[n] = [type |-> "TransportError", attempt |-> MaxRetries]
        /\ status[n] = FAILED
        /\ finished(n)

\* C9: no document ever holds an empty answer; an empty answer surfaces as a
\* node's error only after the last allowed attempt, and that node is Failed
\* and not completed; after an empty answer to an attempt before the last the
\* call site is in the next attempt of the same execute(); a node completed by
\* a model call of the running run has a document, and so has a final document
\* the running run generated
C9_BlankNeverSaved ==
    /\ \A p \in DOMAIN docs : docs[p] # "blank"
    /\ \A n \in Nodes : error_message[n].type = "ValueError" =>
          /\ error_message[n].attempt = MaxRetries
          /\ status[n] = FAILED
          /\ ~is_completed(cp, docs, n)
          /\ generate_doc_path(n) \notin DOMAIN docs
    /\ \A j \in Jobs : last_exception[j].type = "ValueError" =>
          /\ pc[j] = "call"
          /\ attempt[j] = last_exception[j].attempt + 1
    /\ \A n \in called_nodes :
          (phase # "stopped" /\ finished(n) /\ status[n] = COMPLETED) =>
              generate_doc_path(n) \in DOMAIN docs
    /\ phase # "stopped" => generated \subseteq DOMAIN docs

\* a directory failed on an empty answer to its last allowed attempt
C9_Witness ==
    /\ error_message[PKG] = [type |-> "ValueError", attempt |-> MaxRetries]
    /\ status[PKG] = FAILED
    /\ NodeJob(PKG) \in called
    /\ generate_doc_path(PKG) \notin DOMAIN docs
    /\ PKG \notin cp.completed_dirs

\* C10: after mark_has_api for a path that was not in the API file set both
\* completion flags are false; after a call for a path already in the set both
\* flags are what they were; the path is in the set either way
C10_NewApiFileResetsFlags ==
    last_op.op = "mark_has_api" =>
        /\ last_op.arg \in cp.api_files
        /\ last_op.was_new =>
              ~cp.api_doc_completed /\ ~cp.api_usage_doc_completed
        /\ ~last_op.was_new =>
              /\ cp.api_doc_completed = last_op.api_doc_completed
              /\ cp.api_usage_doc_completed = last_op.api_usage_doc_completed

\* mark_has_api has just been called for a new path while the API document
\* flag was true
C10_Witness ==
    /\ last_op.op = "mark_has_api"
    /\ last_op.was_new
    /\ last_op.api_doc_completed
    /\ ~cp.api_doc_completed

\* mark_has_api has just been called for a known path while both flags were true
C10_WitnessKnownPath ==
    /\ last_op.op = "mark_has_api"
    /\ ~last_op.was_new
    /\ cp.api_doc_completed
    /\ cp.api_usage_doc_completed

\* the files this run found to carry an API that the service did not know as
\* API files when the run started
newly_api_files ==
    {f \in Files : NodeJob(f) \in called /\ f \in cp.api_files /\ f \notin at_start.api_files}
PastApiDecision == {"api_extract", "api_stage2", "usage", "usage_extract",
                    "usage_stage2", "finish"}
PastUsageDecision == {"usage_extract", "usage_stage2", "finish"}

\* C11: in a resumed run that started with the API document and the usage
\* document completed and then found a new API file, neither document counts
\* as completed when analyze() comes to it (the scan of the final documents has
\* run by then), stage one is started for the new file in both generators, and
\* a document that counts as completed at the end of the run was generated in
\* this run with the new file's details at hand
C11_NewApiFileForcesRegeneration ==
    (resume /\ at_start.api_doc_done /\ at_start.api_usage_doc_done
            /\ newly_api_files # {}) =>
        /\ phase = "api" => ~is_api_doc_completed(cp, docs)
        /\ phase = "usage" => ~is_api_usage_doc_completed(cp, docs)
        /\ phase \in PastApiDecision =>
              \A f \in newly_api_files : pc[ExtractJob(f)] # "idle"
        /\ phase \in PastUsageDecision =>
              \A f \in newly_api_files : pc[UsageExtractJob(f)] # "idle"
        /\ (phase = "finish" /\ is_api_doc_completed(cp, docs)) =>
              /\ api_doc_path \in generated
              /\ newly_api_files \subseteq DOMAIN cp.api_details_map
        /\ (phase = "finish" /\ is_api_usage_doc_completed(cp, docs)) =>
              /\ api_usage_doc_path \in generated
              /\ newly_api_files \subseteq DOMAIN cp.api_usage_details_map

\* what remains of C11 when a stage-two call or its write fails: within that
\* run neither document is skipped and stage one is started for the new file
C11_NotSkippedInThatRun ==
    (resume /\ at_start.api_doc_done /\ at_start.api_usage_doc_done
            /\ newly_api_files # {}) =>
        /\ phase = "api" => ~is_api_doc_completed(cp, docs)
        /\ phase = "usage" => ~is_api_usage_doc_completed(cp, docs)
        /\ phase \in PastApiDecision =>
              \A f \in newly_api_files : pc[ExtractJob(f)] # "idle"
        /\ phase \in PastUsageDecision =>
              \A f \in newly_api_files : pc[UsageExtractJob(f)] # "idle"

\* the second run found pkg/b.py to be a new API file, extracted its details
\* for both documents and made both stage-two calls
C11_Witness ==
    /\ run = 2
    /\ resume
    /\ at_start.api_doc_done
    /\ at_start.api_usage_doc_done
    /\ FB \in newly_api_files
    /\ phase = "finish"
    /\ FB \in DOMAIN cp.api_details_map
    /\ FB \in DOMAIN cp.api_usage_details_map
    /\ {FinalJob("api"), FinalJob("usage")} \subseteq called

\* analyze() has left generate_api_doc behind in this run
PastApiStage2 == {"usage", "usage_extract", "usage_stage2", "finish"}

C12_NoPartialDocument ==
    (phase \in PastApiStage2 /\ missing_files("api", cp) # {}) =>
        /\ FinalJob("api") \notin called
        /\ api_doc_path \notin generated

\* the report of C12 when stage one left details for at least one file
C12_ReportExactWhenSomeExtracted ==
    (phase \in PastApiStage2 /\ missing_files("api", cp) # {}
                             /\ DOMAIN cp.api_details_map # {}) =>
        reported["api"] = missing_files("api", cp)

C13_ApiDocWritten ==
    (phase \in PastApiStage2 /\ llm_content["api"] # "none") =>
        /\ api_doc_path \in generated
        /\ api_doc_path \in DOMAIN docs
        /\ cp.api_doc_completed

\* what the code does instead: no run writes the API document or the usage
\* document, and an API document on disk is one that was there before the run
C13_NeverWritten ==
    /\ generated \cap {api_doc_path, api_usage_doc_path} = {}
    /\ \A p \in {api_doc_path, api_usage_doc_path} :
          p \in DOMAIN docs => docs[p] = "plain"

\* stage two of the API document got its text in a docs root that held no API
\* document, and analyze() has gone on
C13_Witness ==
    /\ phase \in PastApiStage2
    /\ llm_content["api"] = "plain"
    /\ cp.api_files # {}
    /\ \A f \in cp.api_files : f \in DOMAIN cp.api_details_map
    /\ api_doc_path \notin DOMAIN docs

\* C14 as stated: the single model call is chosen only when the interface
\* count is strictly below the threshold, the programmatic assembly from the
\* threshold on
C14_SingleOnlyBelowThreshold ==
    usage.strategy # "none" =>
        /\ usage.strategy = "single" => usage.api_count < API_USAGE_BATCH_THRESHOLD
        /\ usage.api_count >= API_USAGE_BATCH_THRESHOLD => usage.strategy = "programmatic"

\* C14: generate_api_usage_doc chooses the single model call exactly when the
\* interface count it read from the API document (0 when the document is
\* missing or empty) is at most the threshold of 20, and the programmatic
\* assembly exactly when the count exceeds the threshold
C14_SingleUpToThreshold ==
    usage.strategy # "none" =>
        /\ usage.api_count =
              get_api_info_for_usage_doc(usage.api_doc_exists, usage.api_doc)
        /\ usage.strategy = "single" <=> usage.api_count <= API_USAGE_BATCH_THRESHOLD
        /\ usage.strategy = "programmatic" <=> usage.api_count > API_USAGE_BATCH_THRESHOLD

\* the strategy was chosen for an API document listing exactly 20 interfaces
C14_Witness ==
    /\ usage.strategy = "single"
    /\ usage.api_doc_exists
    /\ usage.api_count = API_USAGE_BATCH_THRESHOLD

\* the programmatic assembly was chosen for 21 interfaces
C14_WitnessAbove ==
    /\ usage.strategy = "programmatic"
    /\ usage.api_count = API_USAGE_BATCH_THRESHOLD + 1

\* C15: with more API files than the threshold the usage document is
\* assembled programmatically, whatever API document is on disk
C15_ManyFilesProgrammatic ==
    (usage.strategy # "none" /\ usage.api_files > API_USAGE_BATCH_THRESHOLD) =>
        usage.strategy = "programmatic"

\* what the code guarantees instead: with more API files than the threshold
\* the programmatic assembly is chosen exactly when the API document on disk
\* lists more interfaces than the threshold
C15_ByDocumentCount ==
    (usage.strategy # "none" /\ usage.api_files > API_USAGE_BATCH_THRESHOLD) =>
        (usage.strategy = "programmatic" <=>
            get_api_info_for_usage_doc(usage.api_doc_exists, usage.api_doc)
                > API_USAGE_BATCH_THRESHOLD)

\* 25 API files, no API document on disk: the single call was chosen
C15_Witness ==
    /\ usage.api_files = MaxApiFiles
    /\ ~usage.api_doc_exists
    /\ usage.strategy = "single"

\* the tasks of the batch submitted to the queue
Submitted == 1 .. lq.stats_total

\* C16: process_all starts min(max_concurrent, queued) workers; no task is
\* executed or reported to the callback more than once, no two workers hold
\* the same task, a task is reported only after it was executed; and when
\* process_all has returned every submitted task was executed exactly once,
\* reported exactly once and has its result
C16_ExactlyOnce ==
    /\ lq.at # "submit" =>
          Cardinality({w \in Workers : lq.wpc[w] # "none"})
              = Min(lq.max_concurrent, lq.stats_total)
    /\ \A t \in 1 .. MaxTasks :
          /\ lq.executed[t] <= 1
          /\ lq.completed[t] <= lq.executed[t]
          /\ t \notin Submitted => lq.executed[t] = 0
    /\ \A v, w \in Workers :
          (v # w /\ lq.wtask[v] # NoTask) => lq.wtask[v] # lq.wtask[w]
    /\ lq.at = "returned" =>
          /\ \A t \in Submitted : lq.executed[t] = 1 /\ lq.completed[t] = 1
          /\ {r[1] : r \in lq.results} = Submitted
          /\ Cardinality(lq.results) = lq.stats_total

\* process_all has returned for a batch of three tasks worked off by two
\* workers
C16_Witness ==
    /\ lq.at = "returned"
    /\ lq.stats_total = MaxTasks
    /\ lq.max_concurrent = MaxConcurrent
    /\ \A w \in Workers : lq.wpc[w] = "stopped"

\* two workers are executing two tasks at the same time while a third task
\* waits in the queue
C16_WitnessRacing ==
    /\ \A w \in Workers : lq.wpc[w] = "execute"
    /\ lq.queue # << >>

\* C17: a callback that raised leaves its worker in the loop and its item
\* marked done: the unfinished count of the queue is the number of tasks still
\* queued or held by a worker, the permits not held are free, and whenever a
\* callback has raised process_all later returns, with every submitted task
\* executed and all permits free
C17_CallbackErrorContained ==
    /\ [](/\ lq.unfinished =
                Len(lq.queue) + Cardinality({w \in Workers : lq.wtask[w] # NoTask})
          /\ lq.permits = lq.max_concurrent
                - Cardinality({w \in Workers : lq.wpc[w] \in {"execute", "callback"}})
          /\ \A w \in Workers :
                (lq.at = "join" /\ lq.wpc[w] # "none") => lq.wpc[w] # "stopped")
    /\ (lq.callback_errors # {}) ~>
          (/\ lq.at = "returned"
           /\ \A t \in Submitted : lq.executed[t] = 1
           /\ lq.permits = lq.max_concurrent)

\* the callback raised for the first task of three; the others were worked off
\* and process_all has returned
C17_Witness ==
    /\ lq.at = "returned"
    /\ lq.stats_total = MaxTasks
    /\ lq.callback_errors = {1}
    /\ \A t \in Submitted : lq.executed[t] = 1

\* C18: process_all eventually returns for every batch and every
\* max_concurrent >= 1; then no item is unfinished, no worker is left running
\* and no permit is held
C18_ProcessAllReturns ==
    /\ <>(lq.at = "returned")
    /\ [](lq.at = "returned" =>
             /\ lq.unfinished = 0
             /\ lq.queue = << >>
             /\ ~lq.running
             /\ \A w \in Workers : lq.wpc[w] \in {"none", "stopped"}
             /\ lq.permits = lq.max_concurrent)

\* process_all has returned with max_concurrent = 1 after a failed task and a
\* callback error
C18_Witness ==
    /\ lq.at = "returned"
    /\ lq.max_concurrent = 1
    /\ lq.stats_total = MaxTasks
    /\ \E t \in Submitted : <<t, FALSE>> \in lq.results
    /\ lq.callback_errors # {}

MutatingOps == {"mark_completed", "mark_failed", "mark_has_api", "mark_final",
                "save_details"}

\* C20: after each mutating call of the service (its write succeeding) the
\* checkpoint file equals the state in memory, whatever was changed in memory
\* only before: a service that loads the file holds the same completed and
\* failed nodes, flags, API files and details, and lacks only the document
\* paths, which are not saved
C20_FileEqualsMemory ==
    last_op.op \in MutatingOps =>
        /\ ckfile = save_checkpoint(cp)
        /\ load_checkpoint(CheckpointService, ckfile)
              = <<TRUE, [cp EXCEPT !.doc_path_map = EmptyMap]>>

\* stage-one details were saved as the last of four calls, for a service that
\* holds completed files
C20_Witness ==
    /\ last_op.op = "save_details"
    /\ cp.completed_files # {}
    /\ cp.api_details_map # EmptyMap
    /\ ops = MaxOps

\* the writes of the checkpoint file that failed
FailedWrites == {"refused", "torn"}

\* C21: a failed write of the checkpoint file does not undo the call that
\* caused it: the mutation is in memory (the node completed with its document
\* path and not failed, and counted completed when its document exists; the
\* failure, API file, details or flag recorded), a torn file is one a later
\* process cannot load, and the service goes on: the next call whose write
\* succeeds leaves the file equal to the whole state in memory
C21_WriteFailureNonFatal ==
    LET n == last_op.arg
    IN  /\ (last_op.write \in FailedWrites /\ last_op.op = "mark_completed") =>
              /\ n \in (IF is_file(n) THEN cp.completed_files ELSE cp.completed_dirs)
              /\ get_doc_path(cp, n) = generate_doc_path(n)
              /\ n \notin cp.failed_files
              /\ generate_doc_path(n) \in DOMAIN docs => is_completed(cp, docs, n)
        /\ (last_op.write \in FailedWrites /\ last_op.op = "mark_failed") =>
              n \in cp.failed_files
        /\ (last_op.write \in FailedWrites /\ last_op.op = "mark_has_api") =>
              n \in cp.api_files
        /\ (last_op.write \in FailedWrites /\ last_op.op = "save_details") =>
              n \in DOMAIN cp.api_details_map \cup DOMAIN cp.api_usage_details_map
        /\ (last_op.write \in FailedWrites /\ last_op.op = "mark_final") =>
              \E k \in FinalKinds : final_path(k) = n /\ mark_final_completed(k, cp) = cp
        /\ last_op.write = "torn" => ~load_checkpoint(CheckpointService, ckfile)[1]
        /\ last_op.write = "ok" => ckfile = save_checkpoint(cp)

\* mark_completed of a file whose document exists ended with a torn write
C21_Witness ==
    /\ last_op.op = "mark_completed"
    /\ last_op.write = "torn"
    /\ is_file(last_op.arg)
    /\ is_completed(cp, docs, last_op.arg)
    /\ ckfile = NoCheckpointFile

\* after a failed write a later call saved the state, two nodes completed
C21_WitnessGoesOn ==
    /\ last_op.write = "ok"
    /\ last_op.write_failures = 1
    /\ Cardinality(cp.completed_files \cup cp.completed_dirs) >= 2
    /\ ckfile = save_checkpoint(cp)

C29_PlaceholderSkipped ==
    \A n \in Dirs : dir_branch[n] = "placeholder" => status[n] = SKIPPED

\* what the code does: mark_completed overwrites the status the branch set
C29_PlaceholderCompleted ==
    \A n \in Dirs :
        (dir_branch[n] = "placeholder" /\ phase # "stopped") => status[n] = COMPLETED

\* a directory processed through the placeholder branch
C29_Witness ==
    \E n \in Dirs : dir_branch[n] = "placeholder" /\ status[n] = COMPLETED

\* ---------------------------------------------------------------------- C23
\* the phases of analyze() that come after stage one of generate_api_doc
PastApiStage1 == {"api_stage2", "usage", "usage_extract", "usage_stage2", "finish"}

\* C23: a run makes no extraction call for a file whose details the service
\* held when the run started, once stage one is over every API file without
\* such an entry has had its extraction call, and a resumed run starts with
\* exactly the entries the checkpoint file holds
C23_ExtractionCached ==
    /\ [](\A f \in ApiCandidates :
            f \in at_start.api_details => ExtractJob(f) \notin called)
    /\ [](phase \in PastApiStage1 =>
            \A f \in cp.api_files :
                f \notin at_start.api_details => ExtractJob(f) \in called)
    /\ [][(phase = "stopped" /\ phase' = "level" /\ resume') =>
            /\ DOMAIN cp'.api_details_map =
                  IF load_checkpoint(CheckpointService, ckfile)[1]
                  THEN DOMAIN ckfile.api_details_map ELSE {}
            /\ \A f \in DOMAIN cp'.api_details_map :
                  cp'.api_details_map[f] = ckfile.api_details_map[f]]_vars

\* a resumed run that found the details of one API file in the checkpoint and
\* none for another: stage one called the model for the second only
C23_Witness ==
    /\ run = 2
    /\ resume
    /\ phase \in PastApiStage1
    /\ \E f, g \in cp.api_files :
          /\ f \in at_start.api_details
          /\ g \notin at_start.api_details
          /\ ExtractJob(f) \notin called
          /\ ExtractJob(g) \in called

\* ------------------------------------------- the overview table on its own
\* generate_api_doc between stage one and stage two, for any API info map
InitTable ==
    /\ InitProgram
    /\ docs = EmptyMap
    /\ usage = NoUsage
    /\ lq = LLMQueue(MaxConcurrent)
    /\ table \in {[NoTable EXCEPT !.api_info_map = m] : m \in ApiInfoMaps}

BuildTable ==
    /\ ~table.built
    /\ LET all_apis == extract_all_apis_from_info_map(table.api_info_map)
       IN  table' = [table EXCEPT !.built = TRUE,
                                  !.all_apis = all_apis,
                                  !.summary_table = generate_api_summary_table(all_apis)]
    /\ UNCHANGED <<docs, ckfile, cp, status, node_doc_path, error_message, phase, depth,
                   queue, worker_count, results, failed_nodes, pc, attempt,
                   last_exception, permits, generated, run, resume, deletes, outcome,
                   called, missing_at_start, clean_rerun, faults, last_op, ops,
                   at_start, reported, llm_content, usage, lq, dir_branch, ever_marked, comparison, scanner>>

NextTable == BuildTable

SpecTable == InitTable /\ [][NextTable]_vars

\* ---------------------------------------------------------------------- C24
\* the lines of an API info map that api_pattern matches, in encounter order
RECURSIVE matched_lines(_)
matched_lines(api_info_map) ==
    IF api_info_map = << >> THEN << >>
    ELSE matched_lines(Front(api_info_map))
         \o [i \in 1..Len(SelectSeq(Last(api_info_map)[2], api_pattern_matches)) |->
               <<Last(api_info_map)[1],
                 SelectSeq(Last(api_info_map)[2], api_pattern_matches)[i]>>]

\* C24: the overview table has one row per parsed entry, in the order of the
\* files of the map and of the lines of each file, nothing merged; the rows
\* are numbered 1..N and the total line says N
C24_TableRows ==
    table.built =>
        LET entries == matched_lines(table.api_info_map)
            N == Len(entries)
            t == table.summary_table
        IN  /\ Len(t.rows) = N
            /\ \A i \in 1..N :
                  /\ t.rows[i].no = i
                  /\ t.rows[i].method = entries[i][2].method
                  /\ t.rows[i].path = entries[i][2].path
                  /\ t.rows[i].desc = entries[i][2].desc
                  /\ t.rows[i].module = get_module_display_name(module_of(entries[i][1]))
            /\ N > 0 => (t.total_stated /\ t.total = N)
            /\ N = 0 => ~t.total_stated

\* two files expose the same method and path, and both rows are in the table
C24_Witness ==
    /\ table.built
    /\ Len(table.api_info_map) = 2
    /\ \E i, j \in DOMAIN table.summary_table.rows :
          /\ i < j
          /\ table.summary_table.rows[i].method = table.summary_table.rows[j].method
          /\ table.summary_table.rows[i].path = table.summary_table.rows[j].path
          /\ table.summary_table.rows[i].module # table.summary_table.rows[j].module
    /\ table.summary_table.total >= 3

\* ---------------------------------------------- naming and scanning alone
\* documents written under their generated names for any nodes of a tree,
\* then read back by scan_existing_docs of a fresh service
NamingNodes == Nodes \cup {FW}

InitNaming ==
    /\ InitProgram
    /\ docs = EmptyMap
    /\ usage = NoUsage
    /\ lq = LLMQueue(MaxConcurrent)
    /\ table = NoTable

NamingWrite(n, kind) ==
    /\ ops = 0
    /\ docs' = save_document(docs, generate_doc_path(n), kind, "ok")
    /\ UNCHANGED <<cp, ckfile, last_op, ops>>
    /\ UNCHANGED pipeline_vars

NamingScan ==
    /\ ops = 0
    /\ cp' = scan_existing_docs(CheckpointService, docs)
    /\ ops' = 1
    /\ UNCHANGED <<docs, ckfile, last_op>>
    /\ UNCHANGED pipeline_vars

NextNaming ==
    \/ \E n \in NamingNodes, kind \in {"api", "plain"} : NamingWrite(n, kind)
    \/ NamingScan

SpecNaming == InitNaming /\ [][NextNaming]_vars

\* ---------------------------------------------------------------------- C25
\* C25: after scan_existing_docs, every node whose document exists at the path
\* generate_doc_path gives is in the matching completed set under its own
\* relative path, and is_completed holds for it
C25_ScanInvertsNaming ==
    ops = 1 =>
        \A n \in NamingNodes :
            doc_exists(docs, n) => (in_record(cp, n) /\ is_completed(cp, docs, n))

\* what the code does: the inverse holds for the nodes whose relative path
\* holds no backslash
C25_InverseWithoutBackslash ==
    ops = 1 =>
        \A n \in NamingNodes :
            (doc_exists(docs, n) /\ forward_slashes(n) = n) =>
                (in_record(cp, n) /\ is_completed(cp, docs, n))

\* the scan has read the documents of a nested file, of a directory and of
\* the root, and of the file with the backslash
C25_Witness ==
    /\ ops = 1
    /\ doc_exists(docs, FB)
    /\ doc_exists(docs, PKG)
    /\ doc_exists(docs, ROOT)
    /\ doc_exists(docs, FW)
    /\ is_completed(cp, docs, FB)
    /\ ~is_completed(cp, docs, FW)

\* ---------------------------------------------------------------------- C26
\* C26: pkg/b.py is processed first, then the directory pkg, then a.py, and
\* the root last: no node of this list begins before the one before it has
\* ended
C26_ScenarioOrder ==
    /\ begun(PKG) => finished(FB)
    /\ begun(FA) => finished(PKG)
    /\ begun(ROOT) => finished(FA)

\* what the code does: pkg/b.py first, then a.py, then the directory pkg (the
\* files of depth 1 before its directories), and the root last
C26_FilesBeforeDirs ==
    /\ begun(FA) => finished(FB)
    /\ begun(PKG) => finished(FA)
    /\ begun(ROOT) => finished(PKG)

\* a.py has ended and the aggregation of pkg has not begun
C26_AFirst == finished(FA) /\ ~begun(PKG)

\* the whole tree went through in one run, every node called
C26_Witness ==
    /\ run = 1
    /\ \A n \in Nodes : finished(n) /\ NodeJob(n) \in called

\* ---------------------------------------------------------------------- C27
\* C27: the permit is released after the execution and before the completion
\* callback: only the workers inside _execute_task hold a permit, a worker in
\* its callback holds none
C27_ReleasedBeforeCallback ==
    lq.permits = lq.max_concurrent
                    - Cardinality({w \in Workers : lq.wpc[w] = "execute"})

\* what the code does: the callback runs inside "async with self.semaphore",
\* so every worker in its callback still holds its permit
C27_HeldDuringCallback ==
    lq.permits <= lq.max_concurrent
                     - Cardinality({w \in Workers : lq.wpc[w] = "callback"})

\* every permit of a queue with two is held by a worker that is in its callback
C27_Witness ==
    /\ lq.max_concurrent = MaxConcurrent
    /\ \A w \in Workers : lq.wpc[w] = "callback"
    /\ lq.permits = 0
    /\ lq.queue # << >>

\* ---------------------------------------------------------------------- C30
\* the depth of node n was reported successful in this run: the cursor has
\* moved past it, or process_all_levels has returned True
level_reported(n) ==
    /\ run >= 1
    /\ phase # "stopped"
    /\ (node_depth(n) > depth \/ phase \in FinalPhases)

\* C30: every node of a depth that was reported successful is recorded as
\* completed in the checkpoint and has its document on disk
C30_SuccessMeansCompleted ==
    \A n \in Nodes : level_reported(n) => is_completed(cp, docs, n)

\* the display raised before the save of pkg/b.py, the level was reported
\* successful all the same and the run went on to depth 1 and beyond
C30_Witness ==
    /\ level_reported(FB)
    /\ NodeJob(FB) \in called
    /\ ~is_completed(cp, docs, FB)
    /\ status[FB] = COMPLETED

\* a cancelled directory task counted as a success of its level
C30_WitnessCancelled ==
    /\ level_reported(PKG)
    /\ NodeJob(PKG) \in called
    /\ ~is_completed(cp, docs, PKG)
    /\ PKG \notin cp.failed_files

\* ---------------------------------------------------------------------- C28
\* C28: when the aggregation of a directory has begun, every file of its depth
\* has ended with a terminal status; while the directories of a level are
\* aggregated the queue is empty and has no worker; and a run that stopped at
\* a level for a failure has ended every directory of that level
C28_FilesThenDirs ==
    /\ \A d \in Dirs, f \in Files :
          (begun(d) /\ node_depth(f) = node_depth(d)) =>
              (finished(f) /\ status[f] \in Terminal)
    /\ phase = "dirs" => (queue = << >> /\ worker_count = 0 /\ workers_busy = 0)
    /\ (phase = "stopped" /\ outcome = "failed") =>
          \A d \in Dirs : node_depth(d) = depth => finished(d)

\* a.py failed at depth 1, and pkg, at the same depth, was aggregated by a
\* model call and completed before the run stopped
C28_Witness ==
    /\ phase = "stopped"
    /\ outcome = "failed"
    /\ status[FA] = FAILED
    /\ FA \in failed_nodes
    /\ NodeJob(PKG) \in called
    /\ is_completed(cp, docs, PKG)

\* ---------------------------------------------------------------------- C31
\* the relative paths held in a completed set of the service
completed_paths(c) == c.completed_files \cup c.completed_dirs

\* C31: no relative path is at the same time in a completed set (files or
\* directories) and in the failed set of the checkpoint
C31_CompletedNotFailed ==
    completed_paths(cp) \cap cp.failed_files = {}

\* pkg/b.py was completed by an earlier run, its document has gone since, and
\* this run called the model for it again and marked it failed: it is in the
\* completed files and in the failed set, in memory and in the checkpoint file
C31_BothRecorded ==
    /\ run = 2
    /\ NodeJob(FB) \in called
    /\ FB \in cp.completed_files \cap cp.failed_files
    /\ ckfile.exists
    /\ FB \in ckfile.completed_files
    /\ FB \in ckfile.failed_files
    /\ ~is_completed(cp, docs, FB)

\* ---------------------------------------------------------------------- C32
\* the process is killed between two steps of a run: what is on disk stays,
\* the service in memory is lost with the process
Interrupted ==
    /\ phase # "stopped"
    /\ run < MaxRuns
    /\ faults < MaxFaults
    /\ faults' = faults + 1
    /\ phase' = "stopped"
    /\ outcome' = "interrupted"
    /\ UNCHANGED <<docs, ckfile, cp, status, node_doc_path, error_message, depth, queue,
                   worker_count, results, failed_nodes, pc, attempt, last_exception,
                   permits, generated, run, resume, deletes, called, missing_at_start,
                   clean_rerun>>
    /\ UNCHANGED harness_vars

\* the process is killed while _save_document writes the document of node n:
\* open(doc_path, "w") has created the file, the text is not all written, and
\* mark_completed is never reached
InterruptedWrite(n) ==
    /\ phase \in {"files", "dirs"}
    /\ pc[NodeJob(n)] = "call"
    /\ run < MaxRuns
    /\ faults < MaxFaults
    /\ faults' = faults + 1
    /\ docs' = With(docs, generate_doc_path(n), "partial")
    /\ phase' = "stopped"
    /\ outcome' = "interrupted"
    /\ UNCHANGED <<ckfile, cp, status, node_doc_path, error_message, depth, queue,
                   worker_count, results, failed_nodes, pc, attempt, last_exception,
                   permits, generated, run, resume, deletes, called, missing_at_start,
                   clean_rerun>>
    /\ UNCHANGED harness_vars

\* the pipeline with a process that may be killed at any point
NextInterrupted ==
    \/ Next
    \/ Interrupted
    \/ \E n \in Nodes : InterruptedWrite(n)

SpecInterrupted == Init /\ [][NextInterrupted]_vars

\* C32: in a resumed run a node counts as complete (and is skipped) only if
\* mark_completed was called for it after a successful analysis, in this run
\* or an earlier one
C32_CompleteOnlyIfMarked ==
    (resume /\ phase # "stopped") =>
        \A n \in Nodes : is_completed(cp, docs, n) => n \in ever_marked

\* the first run was killed while pkg/b.py.md was written; the resumed run
\* has skipped pkg/b.py as completed, without a model call, and its document
\* is still the truncated one
C32_TruncatedSkipped ==
    /\ run = 2
    /\ resume
    /\ phase = "dirs"
    /\ FB \notin ever_marked
    /\ docs[generate_doc_path(FB)] = "partial"
    /\ status[FB] = COMPLETED
    /\ pc[NodeJob(FB)] = "done"
    /\ NodeJob(FB) \notin called

\* ---------------------------------------------------------------------- C33
\* the pipeline when the command line may also pass --no-resume
NextNoResume ==
    \/ Next
    \/ StartRun(FALSE)

SpecNoResume == Init /\ [][NextNoResume]_vars

\* a run with resume disabled has returned True in an environment that never
\* misbehaved
fresh_run_ended ==
    /\ ~resume
    /\ run > 0
    /\ phase = "stopped"
    /\ outcome \in {"complete", "incomplete"}
    /\ faults = 0

\* C33: a run with resume disabled calls the model for every file node, every
\* directory node and every final document it is to produce, whatever
\* documents the docs root held before
C33_AllRegenerated ==
    fresh_run_ended =>
        /\ \A n \in Nodes : NodeJob(n) \in called
        /\ \A k \in FinalKinds :
              final_path(k) \in expected_final_docs(cp) => FinalJob(k) \in called

\* what a run with resume disabled does regenerate: every node, and the two
\* API documents when there are API files
C33_NodesAndApiRegenerated ==
    fresh_run_ended =>
        /\ \A n \in Nodes : NodeJob(n) \in called
        /\ \A k \in {"api", "usage"} :
              final_path(k) \in expected_final_docs(cp) => FinalJob(k) \in called

\* the second run, with resume disabled, called the model for every node and
\* returned True without a call for the README or the reading guide: the
\* documents of the first run are still in the docs root
C33_FinalDocsKept ==
    /\ fresh_run_ended
    /\ run = 2
    /\ \A n \in Nodes : NodeJob(n) \in called
    /\ FinalJob("readme") \notin called
    /\ FinalJob("guide") \notin called
    /\ generated = {}
    /\ readme_path \in DOMAIN docs
    /\ reading_guide_path \in DOMAIN docs

\* ---------------------------------------------------------------------- C34
\* the completion flag of the API document or the usage document
final_flag(k, c) ==
    IF k = "api" THEN c.api_doc_completed ELSE c.api_usage_doc_completed

\* C34: is_api_doc_completed and is_api_usage_doc_completed are true only with
\* the flag set, the document on disk and a details entry for every API file;
\* and analyze() skips one of the two documents as complete, for a non-empty
\* set of API files, only when every API file has its details entry
C34_CompletedMeansExtracted ==
    /\ [](\A k \in {"api", "usage"} :
            is_final_completed(k, cp, docs) =>
                /\ final_flag(k, cp)
                /\ final_path(k) \in DOMAIN docs
                /\ cp.api_files \subseteq DOMAIN details_map(k, cp))
    /\ [][\A k \in {"api", "usage"} :
            (phase = k /\ phase' = next_phase(k) /\ cp.api_files # {}) =>
                /\ cp.api_files \subseteq DOMAIN details_map(k, cp)
                /\ final_path(k) \in DOMAIN docs]_vars

\* the second run has skipped the API document as complete: there are API
\* files, each with its details entry, and neither an extraction nor stage two
\* was called in this run
C34_Witness ==
    /\ run = 2
    /\ phase = "usage"
    /\ cp.api_files # {}
    /\ is_api_doc_completed(cp, docs)
    /\ cp.api_files \subseteq DOMAIN cp.api_details_map
    /\ FinalJob("api") \notin called
    /\ \A f \in ApiCandidates : ExtractJob(f) \notin called

\* ---------------------------------------------------------------------- C35
\* the phases of process_all_levels
LevelPhases == {"level", "files", "dirs"}

\* C35: the depth map partitions the nodes of the tree over the depths
\* 0..max_depth; a node's processing starts and ends at the level of its own
\* depth only, starts from a node not yet handled, and once ended stays ended
\* for the rest of the run; and when process_all_levels has gone through all
\* levels every node has been handled
C35_EachNodeAtOneLevel ==
    /\ [](/\ collect(ROOT) = Nodes
          /\ calc_depth(ROOT) = max_depth
          /\ \A n \in Nodes :
                Cardinality({d \in 0 .. max_depth : n \in depth_map(d)}) = 1
          /\ \A d \in 0 .. 3 : depth_map(d) # {} => d \in 0 .. max_depth)
    /\ [](\A n \in Nodes : begun(n) => (run > 0 /\ depth <= node_depth(n)))
    /\ [][\A n \in Nodes :
            (pc'[NodeJob(n)] # pc[NodeJob(n)] /\ phase # "stopped") =>
                /\ phase \in LevelPhases
                /\ depth = node_depth(n)
                /\ pc[NodeJob(n)] # "done"]_vars
    /\ [][\A n \in Nodes :
            (NodeJob(n) \in called' /\ NodeJob(n) \notin called) =>
                /\ pc[NodeJob(n)] \in {"idle", "queued"}
                /\ pc'[NodeJob(n)] = "call"]_vars
    /\ []((phase \notin LevelPhases /\ phase # "stopped") => \A n \in Nodes : finished(n))
    /\ []((phase = "stopped" /\ outcome \in {"complete", "incomplete"}) =>
             \A n \in Nodes : finished(n))

\* a resumed run has gone through all levels: pkg/b.py was skipped as
\* complete, pkg/c.py was processed in this run, and every node is handled
C35_Witness ==
    /\ run = 2
    /\ phase = "final"
    /\ \A n \in Nodes : finished(n)
    /\ NodeJob(FB) \notin called
    /\ NodeJob(FC) \in called
    /\ status[FB] = COMPLETED
    /\ status[FC] = COMPLETED

\* ---------------------------------------------------------------------- C36
\* a new process on the same source root and docs root: a fresh service loads
\* the checkpoint file
CkLoad ==
    /\ ops < MaxOps
    /\ cp' = load_checkpoint(CheckpointService, ckfile)[2]
    /\ last_op' = op_record("load", NoPath, cp, "none")
    /\ ops' = ops + 1
    /\ UNCHANGED <<docs, ckfile>>
    /\ UNCHANGED pipeline_vars

\* the service marking nodes of either tree and saving, and fresh services
\* loading what was saved
NextRoundTrip ==
    \/ \E n \in NamingNodes : CkMarkCompleted(n, "ok")
    \/ \E n \in NamingNodes : CkMarkFailed(n, "ok")
    \/ \E f \in {FB, FW} : CkMarkHasApi(f, "ok")
    \/ \E k \in FinalKinds : CkMarkFinal(k, "ok")
    \/ \E k \in {"api", "usage"}, f \in {FB, FW} : CkSaveDetails(k, f, "ok")
    \/ CkLoad

SpecRoundTrip == InitCkpt /\ [][NextRoundTrip]_vars

\* the sets, flags and maps of service c are those of checkpoint file f
same_state(c, f) ==
    /\ c.completed_files = f.completed_files
    /\ c.completed_dirs = f.completed_dirs
    /\ c.failed_files = f.failed_files
    /\ c.readme_completed = f.readme_completed
    /\ c.reading_guide_completed = f.reading_guide_completed
    /\ c.api_doc_completed = f.api_doc_completed
    /\ c.api_usage_doc_completed = f.api_usage_doc_completed
    /\ c.api_files = f.api_files
    /\ c.api_info_map = f.api_info_map
    /\ c.api_details_map = f.api_details_map
    /\ c.api_usage_details_map = f.api_usage_details_map

\* C36: after a fresh service has loaded the checkpoint file, its completed
\* files, completed directories, failed set, four flags, API file set and three
\* API maps are the saved ones
C36_LoadRestoresSaved ==
    (last_op.op = "load" /\ ckfile.exists) => same_state(cp, ckfile)

\* the paths a checkpoint file holds in its sets
saved_paths(f) ==
    f.completed_files \cup f.completed_dirs \cup f.failed_files \cup f.api_files

\* the round trip holds when no saved path holds a backslash: what was saved
\* is what is loaded
C36_RestoresWithoutBackslash ==
    (last_op.op = "load" /\ ckfile.exists /\ FW \notin saved_paths(ckfile)) =>
        same_state(cp, ckfile)

\* we\ird.py was marked completed and saved; the service that loaded the file
\* holds we/ird.py instead
C36_LoadedOtherPath ==
    /\ last_op.op = "load"
    /\ ckfile.exists
    /\ FW \in ckfile.completed_files
    /\ FW \notin cp.completed_files
    /\ forward_slashes(FW) \in cp.completed_files

\* ---------------------------------------------------------------------- C37
\* the checkpoint file a run on another source root left in the same docs root
ForeignCheckpoint ==
    [save_checkpoint(mark_completed(CheckpointService, FA, generate_doc_path(FA)))
        EXCEPT !.source_root = "/other"]

\* the checkpoint file is deleted, cut short, or replaced from outside
CkReplaceFile(file) ==
    /\ ops < MaxOps
    /\ ckfile' = file
    /\ last_op' = op_record("replace", NoPath, cp, "none")
    /\ ops' = ops + 1
    /\ UNCHANGED <<docs, cp>>
    /\ UNCHANGED pipeline_vars

\* load_checkpoint called on the service as it stands
CkLoadInto ==
    /\ ops < MaxOps
    /\ cp' = load_checkpoint(cp, ckfile)[2]
    /\ last_op' = op_record("load_into", NoPath, cp, "none")
    /\ ops' = ops + 1
    /\ UNCHANGED <<docs, ckfile>>
    /\ UNCHANGED pipeline_vars

\* the service marking and saving, the checkpoint file replaced behind its
\* back, and load_checkpoint called on the service
NextLoad ==
    \/ \E n \in {FB, PKG} : CkMarkCompleted(n, "ok")
    \/ \E n \in {FB, FC} : CkMarkFailed(n, "ok")
    \/ CkMarkHasApi(FB, "ok")
    \/ \E k \in FinalKinds : CkMarkFinal(k, "ok")
    \/ \E k \in {"api", "usage"} : CkSaveDetails(k, FB, "ok")
    \/ \E file \in {NoCheckpointFile, UnparsableFile, ForeignCheckpoint} : CkReplaceFile(file)
    \/ CkLoadInto

SpecLoad == InitCkpt /\ [][NextLoad]_vars

\* the three ways load_checkpoint fails
load_fails(file) ==
    \/ ~file.exists
    \/ ~file.parsable
    \/ file.source_root # SourceRoot

\* C37: load_checkpoint returns false exactly when the file is missing, cannot
\* be parsed or names another source root, and then the service is after the
\* call what it was before
C37_FailedLoadKeepsState ==
    [][last_op'.op = "load_into" =>
          /\ load_checkpoint(cp, ckfile)[1] = ~load_fails(ckfile)
          /\ load_fails(ckfile) => cp' = cp]_vars

\* load_checkpoint was called on a service that holds pkg/b.py as completed
\* while the file is one of another source root with a.py completed: the
\* service still holds what it held
C37_Witness ==
    /\ last_op.op = "load_into"
    /\ ckfile = ForeignCheckpoint
    /\ cp.completed_files = {FB}
    /\ cp.api_files = {FB}

\* the same with a file that cannot be parsed, and with no file
C37_WitnessUnparsable ==
    /\ last_op.op = "load_into"
    /\ ckfile \in {UnparsableFile, NoCheckpointFile}
    /\ cp.completed_files = {FB}
    /\ cp.readme_completed

\* ------------------------------------------- the consistency check on its own
\* interface strings are sequences of characters; count_api_in_summary_doc and
\* count_api_in_usage_doc hand over "method path" with both parts stripped
MaxApis == 2

ApiNames ==
    { <<"G", " ", "a">>,                       \* G a
      <<"g", " ", "a">>,                       \* g a
      <<"G", " ", "a", "(", "x", ")">>,        \* G a(x)
      <<"G", " ", "a", " ", "(", "x", ")">>,   \* G a (x)
      <<"G", " ", "b">> }                      \* G b

\* str.upper, one character
upper_char(c) ==
    CASE c = "g" -> "G"
      [] c = "a" -> "A"
      [] c = "b" -> "B"
      [] c = "x" -> "X"
      [] OTHER -> c

upper(s) == [i \in 1..Len(s) |-> upper_char(s[i])]

\* the first index from i on where s holds (space = TRUE) or does not hold
\* (space = FALSE) a blank; 0 when there is none
first_index(s, i, space) ==
    LET idx == {j \in i..Len(s) : (s[j] = " ") = space}
    IN  IF idx = {} THEN 0 ELSE CHOOSE j \in idx : \A k \in idx : j <= k

\* str.split(None, 1): leading blanks dropped, the first word, the blanks after
\* it dropped, and the rest as it stands
split_none_1(s) ==
    LET b == first_index(s, 1, FALSE)
    IN  IF b = 0 THEN << >>
        ELSE LET e == first_index(s, b, TRUE)
             IN  IF e = 0 THEN <<SubSeq(s, b, Len(s))>>
                 ELSE LET r == first_index(s, e, FALSE)
                      IN  IF r = 0 THEN <<SubSeq(s, b, e - 1)>>
                          ELSE <<SubSeq(s, b, e - 1), SubSeq(s, r, Len(s))>>

\* path.split('(')[0]
before_paren(path) ==
    LET idx == {j \in 1..Len(path) : path[j] = "("}
    IN  IF idx = {} THEN path
        ELSE SubSeq(path, 1, (CHOOSE j \in idx : \A k \in idx : j <= k) - 1)

\* _normalize_api_for_comparison
normalize_api_for_comparison(api) ==
    LET api_upper == upper(api)
        parts == split_none_1(api_upper)
    IN  IF Len(parts) # 2 THEN api_upper
        ELSE parts[1] \o <<" ">> \o before_paren(parts[2])

\* collections.Counter of a list
Counter(l) ==
    [a \in {l[i] : i \in DOMAIN l} |-> Cardinality({i \in DOMAIN l : l[i] = a})]

\* Counter.get(api, 0)
counter_get(c, a) == IF a \in DOMAIN c THEN c[a] ELSE 0

\* compare_api_counts: the verdict and the two lists of the report; each list
\* is built over sorted(all_apis), so its order follows from its entries and
\* the entries are kept as a set of (name, difference)
compare_api_counts(summary_apis, usage_apis) ==
    LET summary_normalized == [i \in DOMAIN summary_apis |->
                                  normalize_api_for_comparison(summary_apis[i])]
        usage_normalized == [i \in DOMAIN usage_apis |->
                                normalize_api_for_comparison(usage_apis[i])]
        summary_counter == Counter(summary_normalized)
        usage_counter == Counter(usage_normalized)
        all_apis == DOMAIN summary_counter \cup DOMAIN usage_counter
        summary_num(a) == counter_get(summary_counter, a)
        usage_num(a) == counter_get(usage_counter, a)
    IN  IF summary_counter = usage_counter
        THEN [is_consistent |-> TRUE, missing_in_usage |-> {}, extra_in_usage |-> {}]
        ELSE [is_consistent |-> FALSE,
              missing_in_usage |->
                  {[api |-> a, diff |-> summary_num(a) - usage_num(a)] :
                      a \in {x \in all_apis : summary_num(x) > usage_num(x)}},
              extra_in_usage |->
                  {[api |-> a, diff |-> usage_num(a) - summary_num(a)] :
                      a \in {x \in all_apis : usage_num(x) > summary_num(x)}}]

\* count_api_in_summary_doc found one more interface in API_DOC.md
SummaryApi(a) ==
    /\ Len(comparison.summary_apis) < MaxApis
    /\ comparison' = [NoComparison EXCEPT
                         !.summary_apis = Append(comparison.summary_apis, a),
                         !.usage_apis = comparison.usage_apis]
    /\ UNCHANGED <<docs, ckfile, cp, status, node_doc_path, error_message, phase, depth,
                   queue, worker_count, results, failed_nodes, pc, attempt,
                   last_exception, permits, generated, run, resume, deletes, outcome,
                   called, missing_at_start, clean_rerun, faults, last_op, ops,
                   at_start, reported, llm_content, usage, lq, dir_branch, table,
                   ever_marked, scanner>>

\* count_api_in_usage_doc found one more interface in API_USAGE.md
UsageApi(a) ==
    /\ Len(comparison.usage_apis) < MaxApis
    /\ comparison' = [NoComparison EXCEPT
                         !.summary_apis = comparison.summary_apis,
                         !.usage_apis = Append(comparison.usage_apis, a)]
    /\ UNCHANGED <<docs, ckfile, cp, status, node_doc_path, error_message, phase, depth,
                   queue, worker_count, results, failed_nodes, pc, attempt,
                   last_exception, permits, generated, run, resume, deletes, outcome,
                   called, missing_at_start, clean_rerun, faults, last_op, ops,
                   at_start, reported, llm_content, usage, lq, dir_branch, table,
                   ever_marked, scanner>>

\* _verify_api_count_consistency: the two lists handed to compare_api_counts
CompareApiCounts ==
    /\ ~comparison.compared
    /\ LET r == compare_api_counts(comparison.summary_apis, comparison.usage_apis)
       IN  comparison' = [comparison EXCEPT
                             !.compared = TRUE,
                             !.is_consistent = r.is_consistent,
                             !.missing_in_usage = r.missing_in_usage,
                             !.extra_in_usage = r.extra_in_usage]
    /\ UNCHANGED <<docs, ckfile, cp, status, node_doc_path, error_message, phase, depth,
                   queue, worker_count, results, failed_nodes, pc, attempt,
                   last_exception, permits, generated, run, resume, deletes, outcome,
                   called, missing_at_start, clean_rerun, faults, last_op, ops,
                   at_start, reported, llm_content, usage, lq, dir_branch, table,
                   ever_marked, scanner>>

InitCompare ==
    /\ InitProgram
    /\ docs = EmptyMap
    /\ usage = NoUsage
    /\ lq = LLMQueue(MaxConcurrent)
    /\ table = NoTable

NextCompare ==
    \/ \E a \in ApiNames : SummaryApi(a)
    \/ \E a \in ApiNames : UsageApi(a)
    \/ CompareApiCounts

SpecCompare == InitCompare /\ [][NextCompare]_vars

\* ---------------------------------------------------------------------- C38
\* an interface name with its blanks normalised: none at either end, one
\* between words
RECURSIVE squeeze(_)
squeeze(s) ==
    IF s = << >> THEN << >>
    ELSE IF Head(s) = " " THEN squeeze(Tail(s))
    ELSE LET e == first_index(s, 1, TRUE)
         IN  IF e = 0 THEN s
             ELSE LET rest == squeeze(SubSeq(s, e, Len(s)))
                  IN  IF rest = << >> THEN SubSeq(s, 1, e - 1)
                      ELSE SubSeq(s, 1, e - 1) \o <<" ">> \o rest

\* the name the claim compares: signature stripped, case and blanks normalised
interface_name(api) == squeeze(upper(before_paren(api)))

\* how often the name a stands in the list l under the naming f
occurrences(l, a, normal) == Cardinality({i \in DOMAIN l : normal[l[i]] = a})

stated_names == [a \in ApiNames |-> interface_name(a)]
code_names == [a \in ApiNames |-> normalize_api_for_comparison(a)]

\* the lists of at most MaxApis interface strings
ApiLists == UNION {[1..n -> ApiNames] : n \in 0..MaxApis}

\* verdict and report are those of the multisets of names under the naming
\* normal, and no reordering of either list changes them
verdict_by_multisets(normal) ==
    LET s == comparison.summary_apis
        u == comparison.usage_apis
        names == {normal[a] : a \in ApiNames}
        more(l, m) == {[api |-> a, diff |-> occurrences(l, a, normal) - occurrences(m, a, normal)] :
                         a \in {x \in names : occurrences(l, x, normal) > occurrences(m, x, normal)}}
    IN  comparison.compared =>
          /\ comparison.is_consistent <=>
                \A a \in names : occurrences(s, a, normal) = occurrences(u, a, normal)
          /\ ~comparison.is_consistent =>
                /\ comparison.missing_in_usage = more(s, u)
                /\ comparison.extra_in_usage = more(u, s)
          /\ \A s2, u2 \in ApiLists :
                (/\ \A a \in ApiNames : Cardinality({i \in DOMAIN s2 : s2[i] = a})
                                        = Cardinality({i \in DOMAIN s : s[i] = a})
                 /\ \A a \in ApiNames : Cardinality({i \in DOMAIN u2 : u2[i] = a})
                                        = Cardinality({i \in DOMAIN u : u[i] = a}))
                => compare_api_counts(s2, u2).is_consistent = comparison.is_consistent

\* C38: compare_api_counts reports the two documents as consistent exactly
\* when the multisets of interface names (signature stripped, case and blanks
\* normalised) are equal, otherwise its two lists are the two multiset
\* differences with their multiplicities, and the order of the lists does not
\* change the verdict
C38_ConsistentIffSameNames == verdict_by_multisets(stated_names)

\* C38, with the names as _normalize_api_for_comparison leaves them: the
\* verdict is the equality of those multisets, the lists are their
\* differences, and the order of the input does not matter
C38_ConsistentIffSameNormalized == verdict_by_multisets(code_names)

\* a signature written after a blank: "G a (x)" in the overview, "G a" in the
\* usage document, and the check reports a missing and an extra interface
C38_SignatureAfterBlank ==
    /\ comparison.compared
    /\ comparison.summary_apis = << <<"G", " ", "a", " ", "(", "x", ")">> >>
    /\ comparison.usage_apis = << <<"G", " ", "a">> >>
    /\ ~comparison.is_consistent
    /\ comparison.missing_in_usage = {[api |-> <<"G", " ", "A", " ">>, diff |-> 1]}
    /\ comparison.extra_in_usage = {[api |-> <<"G", " ", "A">>, diff |-> 1]}

\* two lists that differ in order, case and an attached signature are
\* consistent, and a name listed twice against once is missing once
C38_Witness ==
    /\ comparison.compared
    /\ \/ /\ comparison.summary_apis = << <<"G", " ", "b">>, <<"G", " ", "a", "(", "x", ")">> >>
          /\ comparison.usage_apis = << <<"g", " ", "a">>, <<"G", " ", "b">> >>
          /\ comparison.is_consistent
       \/ /\ comparison.summary_apis = << <<"G", " ", "a">>, <<"g", " ", "a">> >>
          /\ comparison.usage_apis = << <<"G", " ", "a">> >>
          /\ comparison.missing_in_usage = {[api |-> <<"G", " ", "A">>, diff |-> 2 - 1]}

\* ------------------------------------------------- the scanner on its own
parent_path(p) == SubSeq(p, 1, Len(p) - 1)

\* FileNode.is_dir of the node made for the entry p
entry_is_dir(fs, p) == IF p = TreeRoot THEN TRUE ELSE fs[p] = "dir"

\* FileNode.is_file of the node made for the entry p
entry_is_file(fs, p) == p # TreeRoot /\ fs[p] = "file"

\* current_path.iterdir()
iterdir(fs, p) ==
    {q \in TreePaths : Len(q) = Len(p) + 1 /\ parent_path(q) = p /\ fs[q] # "none"}

\* sorted(..., key=lambda x: (x.is_file(), x.name.lower())): directories
\* first, then by name
sorted_entries(fs, p) ==
    LET es == iterdir(fs, p)
        before(a, b) == \/ fs[a] = "dir" /\ fs[b] # "dir"
                        \/ (fs[a] = "dir") = (fs[b] = "dir") /\ a[Len(a)] < b[Len(b)]
    IN  CHOOSE s \in [1..Cardinality(es) -> es] :
            \A i, j \in DOMAIN s : i < j => before(s[i], s[j])

\* _scan_directory: a node for every directory and every file it takes, as
\* a child of the node of the directory that holds it
scan_directory(fs) ==
    [p \in {TreeRoot} \cup TreePaths |->
        IF entry_is_dir(fs, p)
        THEN SelectSeq(sorted_entries(fs, p), LAMBDA q : fs[q] \in {"dir", "file"})
        ELSE << >>]

\* a pruning pass that looks at the children of one node only
prune_children_only(fs, children, node) ==
    [children |-> [children EXCEPT ![node] =
                      SelectSeq(@, LAMBDA c : ~(entry_is_dir(fs, c) /\ children[c] = << >>))],
     pruned_count |-> Cardinality({i \in DOMAIN children[node] :
                          /\ entry_is_dir(fs, children[node][i])
                          /\ children[children[node][i]] = << >>})]

\* _prune_empty_directories: the loop over node.children from the i-th child
\* on, then the removal of children_to_remove
RECURSIVE prune_empty_directories(_, _, _)
RECURSIVE prune_from(_, _, _, _, _, _)
prune_from(fs, children, node, i, children_to_remove, pruned_count) ==
    IF i > Len(children[node])
    THEN [children |-> [children EXCEPT ![node] =
                           SelectSeq(@, LAMBDA c : c \notin children_to_remove)],
          pruned_count |-> pruned_count]
    ELSE LET child == children[node][i]
         IN  IF entry_is_dir(fs, child)
             THEN LET r == prune_empty_directories(fs, children, child)
                  IN  IF r.children[child] = << >>
                      THEN prune_from(fs, r.children, node, i + 1,
                                      children_to_remove \cup {child},
                                      pruned_count + r.pruned_count + 1)
                      ELSE prune_from(fs, r.children, node, i + 1,
                                      children_to_remove,
                                      pruned_count + r.pruned_count)
             ELSE prune_from(fs, children, node, i + 1, children_to_remove, pruned_count)

prune_empty_directories(fs, children, node) ==
    prune_from(fs, children, node, 1, {}, 0)

\* the nodes of the tree below and including n
RECURSIVE tree_nodes(_, _)
tree_nodes(children, n) ==
    {n} \cup UNION {tree_nodes(children, children[n][i]) : i \in DOMAIN children[n]}

\* the source directory gets one more entry before the scan
MakeEntry(p, kind) ==
    /\ ~scanner.scanned
    /\ scanner.fs[p] = "none"
    /\ entry_is_dir(scanner.fs, parent_path(p))
    /\ scanner' = [scanner EXCEPT !.fs[p] = kind]
    /\ UNCHANGED <<docs, ckfile, cp, status, node_doc_path, error_message, phase, depth,
                   queue, worker_count, results, failed_nodes, pc, attempt,
                   last_exception, permits, generated, run, resume, deletes, outcome,
                   called, missing_at_start, clean_rerun, faults, last_op, ops,
                   at_start, reported, llm_content, usage, lq, dir_branch, table,
                   ever_marked, comparison>>

\* DirectoryScanner.scan: _scan_directory, then _prune_empty_directories
Scan ==
    /\ ~scanner.scanned
    /\ LET r == prune_empty_directories(scanner.fs, scan_directory(scanner.fs), TreeRoot)
       IN  scanner' = [scanner EXCEPT !.scanned = TRUE,
                                      !.children = r.children,
                                      !.pruned_count = r.pruned_count]
    /\ UNCHANGED <<docs, ckfile, cp, status, node_doc_path, error_message, phase, depth,
                   queue, worker_count, results, failed_nodes, pc, attempt,
                   last_exception, permits, generated, run, resume, deletes, outcome,
                   called, missing_at_start, clean_rerun, faults, last_op, ops,
                   at_start, reported, llm_content, usage, lq, dir_branch, table,
                   ever_marked, comparison>>

InitScan ==
    /\ InitProgram
    /\ docs = EmptyMap
    /\ usage = NoUsage
    /\ lq = LLMQueue(MaxConcurrent)
    /\ table = NoTable

NextScan ==
    \/ \E p \in TreePaths, kind \in {"dir", "file", "other"} : MakeEntry(p, kind)
    \/ Scan

SpecScan == InitScan /\ [][NextScan]_vars

\* ---------------------------------------------------------------------- C39
\* the tree scan returned, and the tree before the pruning pass
scanned_tree == tree_nodes(scanner.children, TreeRoot)
unpruned_tree == tree_nodes(scan_directory(scanner.fs), TreeRoot)

\* the file nodes below the directory d in the tree of children
descendant_files(children, d) ==
    {f \in tree_nodes(children, d) : entry_is_file(scanner.fs, f)}

\* C39: after scan every directory node other than the root has a descendant
\* file node, a chain of directories without files is gone after the one
\* pass, and no directory with a descendant file and no file node was removed
C39_NoEmptyDirectoryLeft ==
    scanner.scanned =>
        /\ \A d \in scanned_tree \ {TreeRoot} :
              entry_is_dir(scanner.fs, d) => descendant_files(scanner.children, d) # {}
        /\ \A n \in unpruned_tree :
              \/ entry_is_file(scanner.fs, n)
              \/ descendant_files(scan_directory(scanner.fs), n) # {}
              => n \in scanned_tree
        /\ scanned_tree \subseteq unpruned_tree
        /\ scanner.pruned_count = Cardinality(unpruned_tree \ scanned_tree)

\* a chain of three directories that hold no file the scanner takes is
\* pruned whole in the one pass, next to a directory that keeps its file
C39_Witness ==
    /\ scanner.scanned
    /\ scanner.fs[<<1>>] = "dir"
    /\ scanner.fs[<<1, 1>>] = "dir"
    /\ scanner.fs[<<1, 1, 1>>] = "dir"
    /\ scanner.fs[<<1, 1, 2>>] = "other"
    /\ scanner.fs[<<1, 2>>] = "none"
    /\ scanner.fs[<<2>>] = "dir"
    /\ scanner.fs[<<2, 1>>] = "dir"
    /\ scanner.fs[<<2, 1, 2>>] = "file"
    /\ scanned_tree = {TreeRoot, <<2>>, <<2, 1>>, <<2, 1, 2>>}
    /\ scanner.pruned_count >= 3

\* ------------------------------- the API-bearing set and the API info map
\* CheckpointService.scan_existing_docs, called on the service as it stands
CkScanExistingDocs ==
    /\ ops < MaxOps
    /\ cp' = scan_existing_docs(cp, docs)
    /\ last_op' = op_record("scan_existing_docs", NoPath, cp, "none")
    /\ ops' = ops + 1
    /\ UNCHANGED <<docs, ckfile>>
    /\ UNCHANGED pipeline_vars

\* a service that starts empty: documents come and go in the docs root, files
\* are marked as API-bearing, the docs root is scanned
NextApiSet ==
    \/ \E n \in NamingNodes, kind \in {"api", "plain"} : CkWriteDoc(generate_doc_path(n), kind)
    \/ \E p \in DOMAIN docs : CkDeleteDoc(p)
    \/ \E f \in Files \cup {FW} : CkMarkHasApi(f, "ok")
    \/ CkScanExistingDocs

SpecApiSet == InitCkpt /\ [][NextApiSet]_vars

\* ---------------------------------------------------------------------- C40
\* C40: from an empty checkpoint, after any calls of mark_has_api and
\* scan_existing_docs the API-bearing set is the key set of the API info map
C40_ApiFilesAreInfoKeys == cp.api_files = DOMAIN cp.api_info_map

\* one file marked by mark_has_api, another recovered from its document by a
\* later scan, a third document without an interface section left out
C40_Witness ==
    /\ last_op.op = "scan_existing_docs"
    /\ FB \in cp.api_files
    /\ generate_doc_path(FB) \notin DOMAIN docs
    /\ FA \in cp.api_files
    /\ generate_doc_path(FA) \in DOMAIN docs
    /\ docs[generate_doc_path(FA)] = "api"
    /\ ops = 4
    /\ generate_doc_path(FC) \in DOMAIN docs
    /\ FC \notin cp.api_files
    /\ Cardinality(DOMAIN cp.api_info_map) = 2

====
